---- MODULE Spec2Model ----
(***************************************************************************)
(* Model of gemini_mcp/gemini.py: one run_gemini call driving the external *)
(* gemini CLI through _call_with_retries and _call_gemini; and of          *)
(* gemini_mcp/files.py: resolve_files and read_files_as_context.           *)
(*                                                                         *)
(* Spec           run_gemini called with any arguments, the process free   *)
(* SpecPlanned    run_gemini with the process's stderr or stdout fixed     *)
(* SpecQuery      the public tool gemini_query (server.py), then run_gemini*)
(* SpecCancel     run_gemini whose task may be cancelled at an await       *)
(* SpecContext    run_gemini given a context                               *)
(* SpecConcurrent two run_gemini calls in one event loop                   *)
(* SpecFiles      resolve_files, step by step                              *)
(* SpecRead       read_files_as_context, file by file                      *)
(*                                                                         *)
(* A Python str is a sequence of tokens (TLA+ strings); concatenation is   *)
(* \o.  The separators the code splits on (": ", newline) are tokens of    *)
(* their own, so split/strip/splitlines are computed on the sequence.      *)
(* A JSON document is one token; json.loads is the table JsonLoads.        *)
(***************************************************************************)
EXTENDS Integers, Sequences, FiniteSets, TLC

\* ------------------------------------------------------------------ bounds
\* Longest priority list (models=...) a call is given.
MaxModels == 2
\* The longest planned stderr text, in lines.
MaxTextLines == 2
\* The most backend entries of a planned payload's usage mapping.
MaxEntries == 2
\* The longest planned stdout, in lines.
MaxLines == 2
\* The largest max_files resolve_files is given.
MaxFiles == 3
\* The largest max_bytes read_files_as_context is given.
MaxBytes == 5

\* ------------------------------------------------------- program constants
_MAX_RETRIES == 2
_RETRY_DELAY_SECS == 3
\* run_gemini's default timeout (seconds) and skipped_files arguments.
timeout == 120
skipped_files == 0

\* ----------------------------------------------------------------- strings
None == "<None>"
Sep == ": "
NL == "\n"
SP == " "

\* str(n) for the integers that occur.
NumStr(n) ==
  CASE n = 0 -> "0" [] n = 1 -> "1" [] n = 2 -> "2" [] n = 3 -> "3" [] n = 4 -> "4" [] n = 5 -> "5" [] n = 6 -> "6"
    [] n = 7 -> "7" [] n = 9 -> "9" [] n = 120 -> "120" [] OTHER -> "<int>"

\* sub in s (both token sequences).
Contains(s, sub) ==
  \E i \in 0..(Len(s) - Len(sub)) : \A j \in 1..Len(sub) : s[i + j] = sub[j]

IsSpace(tok) == tok \in {NL, SP}

\* s.strip()
RECURSIVE LStrip(_)
LStrip(s) == IF s # <<>> /\ IsSpace(Head(s)) THEN LStrip(Tail(s)) ELSE s
RECURSIVE RStrip(_)
RStrip(s) ==
  IF s # <<>> /\ IsSpace(s[Len(s)]) THEN RStrip(SubSeq(s, 1, Len(s) - 1)) ELSE s
Strip(s) == RStrip(LStrip(s))

\* s.splitlines(): the lines of s, without the line ends.
RECURSIVE SplitLinesAcc(_, _, _)
SplitLinesAcc(s, cur, acc) ==
  IF s = <<>> THEN (IF cur = <<>> THEN acc ELSE Append(acc, cur))
  ELSE IF Head(s) = NL THEN SplitLinesAcc(Tail(s), <<>>, Append(acc, cur))
  ELSE SplitLinesAcc(Tail(s), Append(cur, Head(s)), acc)
SplitLines(s) == SplitLinesAcc(s, <<>>, <<>>)

Reverse(q) == [i \in 1..Len(q) |-> q[Len(q) + 1 - i]]

\* sep.join(parts)
RECURSIVE Join(_, _)
Join(sep, parts) ==
  IF parts = <<>> THEN <<>>
  ELSE IF Len(parts) = 1 THEN parts[1]
  ELSE parts[1] \o sep \o Join(sep, Tail(parts))

\* Index of the n-th ": " token of s, 0 when there are fewer.
SepPositions(s) == {i \in 1..Len(s) : s[i] = Sep}
NthSep(s, n) ==
  IF Cardinality(SepPositions(s)) < n THEN 0
  ELSE CHOOSE i \in SepPositions(s) :
         Cardinality({j \in SepPositions(s) : j <= i}) = n

\* error.split(": ", 2)[-1] if ": " in error else error
ShortError(error) ==
  IF SepPositions(error) = {} THEN error
  ELSE IF NthSep(error, 2) # 0 THEN SubSeq(error, NthSep(error, 2) + 1, Len(error))
  ELSE SubSeq(error, NthSep(error, 1) + 1, Len(error))

\* ----------------------------------------------------------- Python values
PyNull == [t |-> "null"]
PyNum(n) == [t |-> "num", n |-> n]
PyStr(s) == [t |-> "str", s |-> s]
PyList(items) == [t |-> "arr", items |-> items]
\* A dict keeps insertion order: keys is the order, f the mapping.
PyDict(keys, f) == [t |-> "obj", keys |-> keys, f |-> f]
EmptyDict == PyDict(<<>>, <<>>)

\* bool(v)
Truthy(v) ==
  CASE v.t = "null" -> FALSE
    [] v.t = "num" -> v.n # 0
    [] v.t = "str" -> v.s # <<>>
    [] v.t = "arr" -> v.items # <<>>
    [] v.t = "obj" -> v.keys # <<>>

HasKey(d, k) == \E i \in 1..Len(d.keys) : d.keys[i] = k
\* d.get(k, default), d a dict
DictGet(d, k, default) == IF HasKey(d, k) THEN d.f[k] ELSE default

\* str(v) as an f-string renders it.
Render(v) ==
  CASE v.t = "str" -> v.s
    [] v.t = "num" -> <<NumStr(v.n)>>
    [] v.t = "null" -> <<"None">>
    [] OTHER -> <<"<repr>">>

\* ---------------------------------------------------- failure classification
\* The vocabulary of failure-text tokens, and for each regular expression of
\* the two pattern lists the tokens of the vocabulary it finds a match in.
T_RateLimit == "429 rate limit exceeded"
T_TempUnavail == "model temporarily unavailable"
T_ModelNotFound == "model not found"
T_UnknownError == "unknown error"
T_Quota == "quota exceeded"
T_404 == "404"
T_PermDenied == "[Errno 13] Permission denied"

_FALLBACK_PATTERNS ==
  << {T_ModelNotFound},      \* model.*not found
     {},                     \* model.*does not exist
     {T_TempUnavail},        \* model.*unavailable
     {T_404},                \* (?:^|[\s:])404(?:\s|$)
     {},                     \* not supported
     {} >>                   \* deprecated

_RETRIABLE_PATTERNS ==
  << {T_RateLimit},          \* (?:^|[\s:])429(?:\s|$)
     {T_RateLimit},          \* rate.?limit
     {T_Quota},              \* quota
     {},                     \* resource.?exhausted
     {},                     \* overloaded
     {},                     \* too many requests
     {},                     \* (?:^|[\s:])503(?:\s|$)
     {T_TempUnavail} >>      \* temporarily unavailable

\* pat.search(error_msg)
PatSearch(pat, error_msg) == \E i \in 1..Len(error_msg) : error_msg[i] \in pat

\* Variant: the fallback patterns are searched before the retriable ones.
ShouldFallbackPermanentFirst(error_msg) ==
  IF \E p \in 1..Len(_FALLBACK_PATTERNS) : PatSearch(_FALLBACK_PATTERNS[p], error_msg)
    THEN TRUE
  ELSE IF \E p \in 1..Len(_RETRIABLE_PATTERNS) : PatSearch(_RETRIABLE_PATTERNS[p], error_msg)
    THEN FALSE
  ELSE TRUE

\* True if the error means this model can't serve the request.
_should_fallback(error_msg) ==
  IF \E p \in 1..Len(_RETRIABLE_PATTERNS) : PatSearch(_RETRIABLE_PATTERNS[p], error_msg)
    THEN FALSE
  ELSE IF \E p \in 1..Len(_FALLBACK_PATTERNS) : PatSearch(_FALLBACK_PATTERNS[p], error_msg)
    THEN TRUE
  ELSE TRUE

\* -------------------------------------------------------------- JSON payloads
\* What the external process prints, when that is fixed for the whole call.
VARIABLE plan

J_Plain == "{\"response\":\"hello\",\"stats\":{}}"
J_Stats == "{\"session_id\":\"s1\",\"response\":\"hi\",\"stats\":{\"models\":{\"R\":{\"tokens\":{\"input\":5,\"candidates\":1}},\"M\":{\"tokens\":{\"input\":7,\"candidates\":9}}}}}"
J_List == "[1]"
J_NumResp == "{\"response\":5}"
J_NullStats == "{\"response\":\"x\",\"stats\":null}"
J_ListModels == "{\"response\":\"x\",\"stats\":{\"models\":[\"a\"]}}"
\* The JSON text of plan.data, the payload planned for this call.
J_Payload == "<json.dumps(plan.data)>"

TokensEntry(i, c) ==
  PyDict(<<"tokens">>,
         "tokens" :> PyDict(<<"input", "candidates">>,
                            "input" :> PyNum(i) @@ "candidates" :> PyNum(c)))

JsonDocs == {J_Plain, J_Stats, J_List, J_NumResp, J_NullStats, J_ListModels, J_Payload}

\* json.loads(tok) for a token that is a JSON document.
JsonValue(tok) ==
  CASE tok = J_Plain ->
         PyDict(<<"response", "stats">>,
                "response" :> PyStr(<<"hello">>) @@ "stats" :> EmptyDict)
    [] tok = J_Stats ->
         PyDict(<<"session_id", "response", "stats">>,
                "session_id" :> PyStr(<<"s1">>) @@ "response" :> PyStr(<<"hi">>) @@
                "stats" :> PyDict(<<"models">>,
                   "models" :> PyDict(<<"R", "M">>,
                      "R" :> TokensEntry(5, 1) @@ "M" :> TokensEntry(7, 9))))
    [] tok = J_List -> PyList(<<PyNum(1)>>)
    [] tok = J_NumResp -> PyDict(<<"response">>, "response" :> PyNum(5))
    [] tok = J_NullStats ->
         PyDict(<<"response", "stats">>,
                "response" :> PyStr(<<"x">>) @@ "stats" :> PyNull)
    [] tok = J_ListModels ->
         PyDict(<<"response", "stats">>,
                "response" :> PyStr(<<"x">>) @@
                "stats" :> PyDict(<<"models">>, "models" :> PyList(<<PyStr(<<"a">>)>>)))
    [] tok = J_Payload -> plan.data

\* A call's result or the exception it raised.
Ok(v) == [exc |-> "none", val |-> v]
Raise(e) == [exc |-> e]

\* json.loads(text): text must be one JSON document (outer whitespace allowed).
JsonLoads(text) ==
  IF Len(Strip(text)) = 1 /\ Strip(text)[1] \in JsonDocs
    THEN Ok(JsonValue(Strip(text)[1]))
    ELSE Raise("JSONDecodeError")

\* ------------------------------------------------------------- _extract_stats
\* What iterating `models` yields: a dict's keys in insertion order, a list's
\* items.
IterItems(models) ==
  IF models.t = "obj" THEN [i \in 1..Len(models.keys) |-> PyStr(<<models.keys[i]>>)]
  ELSE models.items

\* models[m]
Subscript(models, m) ==
  CASE models.t = "obj" -> Ok(models.f[m.s[1]])
    [] models.t = "arr" ->
         IF m.t # "num" THEN Raise("TypeError")
         ELSE IF m.n + 1 \in 1..Len(models.items) THEN Ok(models.items[m.n + 1])
         ELSE Raise("IndexError")
    [] OTHER -> Raise("TypeError")

\* models[m].get("tokens", {})
TokensOf(models, m) ==
  LET e == Subscript(models, m) IN
  IF e.exc # "none" THEN e
  ELSE IF e.val.t # "obj" THEN Raise("AttributeError")
  ELSE Ok(DictGet(e.val, "tokens", EmptyDict))

\* Variant: max() compares the input counts.
CandidatesKeyInput(models, m) ==
  LET tk == TokensOf(models, m) IN
  IF tk.exc # "none" THEN tk
  ELSE IF tk.val.t # "obj" THEN Raise("AttributeError")
  ELSE Ok(DictGet(tk.val, "input", PyNum(0)))

\* The key of max(): models[m].get("tokens", {}).get("candidates", 0)
CandidatesKey(models, m) ==
  LET tk == TokensOf(models, m) IN
  IF tk.exc # "none" THEN tk
  ELSE IF tk.val.t # "obj" THEN Raise("AttributeError")
  ELSE Ok(DictGet(tk.val, "candidates", PyNum(0)))

\* a > b.  The usage counts of the model are numbers or null.
Greater(a, b) ==
  IF a.t = "num" /\ b.t = "num" THEN Ok(a.n > b.n) ELSE Raise("TypeError")

\* max(items, key=...): the first item whose key is greatest; best and bestKey
\* are the running maximum.
RECURSIVE MaxFrom(_, _, _, _)
MaxFrom(models, rest, best, bestKey) ==
  IF rest = <<>> THEN Ok(best)
  ELSE LET k == CandidatesKey(models, Head(rest)) IN
       IF k.exc # "none" THEN k
       ELSE LET g == Greater(k.val, bestKey) IN
            IF g.exc # "none" THEN g
            ELSE IF g.val THEN MaxFrom(models, Tail(rest), Head(rest), k.val)
            ELSE MaxFrom(models, Tail(rest), best, bestKey)

MaxByCandidates(models) ==
  IF models.t \notin {"obj", "arr"} THEN Raise("TypeError")
  ELSE LET items == IterItems(models)
           k1 == CandidatesKey(models, items[1]) IN
       IF k1.exc # "none" THEN k1
       ELSE MaxFrom(models, Tail(items), items[1], k1.val)

NoStats == [t |-> "null"]

\* data is a dict.  An absent "session_id" key of the result
\* is PyNull (the result is only read with .get).
_extract_stats(data) ==
  LET st == DictGet(data, "stats", EmptyDict) IN
  IF st.t # "obj" THEN Raise("AttributeError")
  ELSE LET models == DictGet(st, "models", EmptyDict) IN
  IF ~Truthy(models) THEN Ok(NoStats)
  ELSE LET best == MaxByCandidates(models) IN
  IF best.exc # "none" THEN best
  ELSE LET tokens == TokensOf(models, best.val).val
           sid == DictGet(data, "session_id", PyNull) IN
       Ok([t |-> "stats",
           model |-> best.val,
           input_tokens |-> DictGet(tokens, "input", PyNum(0)),
           output_tokens |-> DictGet(tokens, "candidates", PyNum(0)),
           session_id |-> IF Truthy(sid) THEN sid ELSE PyNull])

\* ----------------------------------------------------------- _format_metadata
\* Variant: a footer is written without statistics too.
MetadataAlways(stats, fallback_from, skipped) ==
  IF stats.t = "null" THEN PyStr(<<"---">>)
  ELSE PyStr(<<"---", NL, "Model", Sep>> \o Render(stats.model))

\* The footer as a Python value: a str, or None.
_format_metadata(stats, fallback_from, skipped) ==
  IF stats.t = "null" THEN PyNull
  ELSE LET model_line ==
             <<"Model", Sep>> \o Render(stats.model) \o
             (IF fallback_from \notin {None, ""}
                THEN <<" (fallback from ", fallback_from, ")">> ELSE <<>>)
           token_line ==
             <<"Tokens", Sep>> \o Render(stats.input_tokens) \o <<" input / ">> \o
             Render(stats.output_tokens) \o <<" output">>
           lines ==
             <<<<"---">>, model_line, token_line>> \o
             (IF Truthy(stats.session_id)
                THEN <<<<"Session ID", Sep>> \o Render(stats.session_id)>> ELSE <<>>) \o
             (IF skipped > 0
                THEN <<<<"Skipped", Sep, NumStr(skipped), " binary/junk files">>>>
                ELSE <<>>)
       IN PyStr(Join(<<NL>>, lines))

\* ---------------------------------------------------- _format_fallback_warning
\* m or "default"
NameOf(m) == IF m \in {None, ""} THEN "default" ELSE m

\* Variant: the failures are listed latest first.
WarningLatestFirst(failures, used_model) ==
  LET head == <<"[WARNING", Sep, "Fell back to ", NameOf(used_model), "]">>
      line(f) == <<"  - ", f[1], Sep>> \o ShortError(f[2])
  IN Join(<<NL>>, <<head>> \o [i \in 1..Len(failures) |->
                                 line(failures[Len(failures) + 1 - i])])

_format_fallback_warning(failures, used_model) ==
  LET head == <<"[WARNING", Sep, "Fell back to ", NameOf(used_model), "]">>
      line(f) == <<"  - ", f[1], Sep>> \o ShortError(f[2])
  IN Join(<<NL>>, <<head>> \o [i \in 1..Len(failures) |-> line(failures[i])])

\* ---------------------------------------------------------------- _call_gemini
BadByte == "\\xff"

\* bytes.decode()
Decode(b) ==
  IF \E i \in 1..Len(b) : b[i] = BadByte THEN Raise("UnicodeDecodeError") ELSE Ok(b)

\* A lone surrogate code point: a str may hold it, utf-8 cannot encode it.
Surrogate == "<surrogate>"

\* str.encode()
Encode(s) ==
  IF \E i \in 1..Len(s) : s[i] = Surrogate THEN Raise("UnicodeEncodeError") ELSE Ok(s)

\* stdin_data = context.encode() if context else None
StdinData(context) ==
  IF context # <<>> THEN [isNone |-> FALSE, bytes |-> Encode(context).val]
  ELSE [isNone |-> TRUE, bytes |-> <<>>]

\* What _call_gemini returns: (success, result_text, stats_or_none).
Outcome(success, result, stats) ==
  [success |-> success, result |-> result, stats |-> stats]

\* [gemini_path, "-p", prompt, "-o", "json"] + ["-m", model] + ["-r", session_id]
Cmd(path, m, sid) ==
  <<path, "-p", "<prompt>", "-o", "json">> \o
  (IF m \notin {None, ""} THEN <<"-m", m>> ELSE <<>>) \o
  (IF sid \notin {None, ""} THEN <<"-r", sid>> ELSE <<>>)

TimeoutOutcome ==
  Outcome(FALSE,
          PyStr(<<"Error", Sep, "gemini CLI timed out after ", NumStr(timeout), "s">>),
          NoStats)

OSErrorOutcome(e) ==
  Outcome(FALSE, PyStr(<<"Error", Sep, "failed to run gemini CLI", Sep>> \o e), NoStats)

\* proc.returncode != 0
ExitFailure(returncode, stderr) ==
  LET d == Decode(stderr) IN
  IF stderr # <<>> /\ d.exc # "none" THEN d
  ELSE LET error_msg == IF stderr # <<>> THEN Strip(d.val) ELSE <<T_UnknownError>> IN
       Ok(Outcome(FALSE,
                  PyStr(<<"Error", Sep, "gemini CLI exited with code ",
                          NumStr(returncode), Sep>> \o error_msg),
                  NoStats))

\* return True, data.get("response", stdout_text), _extract_stats(data)
FromData(data, stdout_text) ==
  IF data.t # "obj" THEN Raise("AttributeError")
  ELSE LET st == _extract_stats(data) IN
       IF st.exc # "none" THEN st
       ELSE Ok(Outcome(TRUE, DictGet(data, "response", PyStr(stdout_text)), st.val))

\* for line in reversed(stdout_text.splitlines()): ...
RECURSIVE ScanLines(_, _)
ScanLines(lines, stdout_text) ==
  IF lines = <<>> THEN Ok(Outcome(TRUE, PyStr(stdout_text), NoStats))
  ELSE LET line == Strip(Head(lines)) IN
       IF line = <<>> THEN ScanLines(Tail(lines), stdout_text)
       ELSE LET d == JsonLoads(line) IN
            IF d.exc # "none" THEN ScanLines(Tail(lines), stdout_text)
            ELSE LET r == FromData(d.val, stdout_text) IN
                 IF r.exc = "AttributeError" THEN ScanLines(Tail(lines), stdout_text)
                 ELSE r

\* returncode == 0: parse stdout
ExitSuccess(stdout) ==
  LET dec == Decode(stdout) IN
  IF dec.exc # "none" THEN dec
  ELSE LET stdout_text == Strip(dec.val)
           d == JsonLoads(stdout_text) IN
       IF d.exc = "none" THEN FromData(d.val, stdout_text)
       ELSE ScanLines(Reverse(SplitLines(stdout_text)), stdout_text)

\* ---------------------------------------------------------- _call_with_retries
\* Variant: every failure is retried, whatever its class.
AfterAttemptRetryAny(out, n) ==
  IF out.success THEN "success"
  ELSE IF n < _MAX_RETRIES THEN "sleep"
  ELSE "exhausted"

\* Variant: one retry too many (attempt <= _MAX_RETRIES).
AfterAttemptOffByOne(out, n) ==
  IF out.success THEN "success"
  ELSE IF _should_fallback(out.result.s) THEN "fallback"
  ELSE IF n <= _MAX_RETRIES THEN "sleep"
  ELSE "exhausted"

\* What the loop body does with the outcome of attempt number n (0-based):
\* "success" (return True, result, stats), "fallback" (return False, result,
\* None), "sleep" (retry after the delay) or "exhausted" (the loop ends:
\* return False, last_error, None).
AfterAttempt(out, n) ==
  IF out.success THEN "success"
  ELSE IF _should_fallback(out.result.s) THEN "fallback"
  ELSE IF n < _MAX_RETRIES THEN "sleep"
  ELSE "exhausted"

\* Variant: last_error is only set by the first failure.
LastErrorKeepFirst(prev, result) == IF prev = <<>> THEN result ELSE prev

\* last_error = result: the text _call_with_retries returns when the loop ends.
LastError(prev, result) == result

\* ------------------------------------------------------------------ run_gemini
NotFoundMessage == <<"Error", Sep, "gemini CLI ", "not found", " in PATH">>
NoModelsMessage == <<"Error", Sep, "no models to try">>

\* The models argument: None, or a list.
ModelsNone == [isNone |-> TRUE, items |-> <<>>]
ModelsList(l) == [isNone |-> FALSE, items |-> l]

\* to_try
ToTry(model, models) ==
  IF models.items # <<>> THEN models.items
  ELSE IF model \notin {None, ""} THEN <<model>>
  ELSE <<None>>

\* Variant: the session id survives a fallback.
SessionKept(sid) == sid

\* The session id _call_with_retries is given for a candidate after a failure.
SessionAfterFailure(sid) == None

\* Variant: the footer names the candidate that failed last.
ComposeLatestFailure(failures, m, result, stats) ==
  LET metadata ==
        _format_metadata(stats,
                       IF failures # <<>> THEN failures[Len(failures)][1] ELSE None,
                       skipped_files)
      parts ==
        (IF failures # <<>> THEN <<PyStr(_format_fallback_warning(failures, m))>> ELSE <<>>)
        \o <<result>>
        \o (IF Truthy(metadata) THEN <<metadata>> ELSE <<>>)
  IN IF \E i \in 1..Len(parts) : parts[i].t # "str" THEN Raise("TypeError")
     ELSE Ok(Join(<<NL, NL>>, [i \in 1..Len(parts) |-> parts[i].s]))

\* The string returned on success: "\n\n".join(parts)
Compose(failures, m, result, stats) ==
  LET metadata ==
        _format_metadata(stats,
                       IF failures # <<>> THEN failures[1][1] ELSE None,
                       skipped_files)
      parts ==
        (IF failures # <<>> THEN <<PyStr(_format_fallback_warning(failures, m))>> ELSE <<>>)
        \o <<result>>
        \o (IF Truthy(metadata) THEN <<metadata>> ELSE <<>>)
  IN IF \E i \in 1..Len(parts) : parts[i].t # "str" THEN Raise("TypeError")
     ELSE Ok(Join(<<NL, NL>>, [i \in 1..Len(parts) |-> parts[i].s]))

\* Variant: the first failure is returned instead of the last.
ExhaustedFirstFailure(failures) ==
  IF failures # <<>> THEN failures[1][2] ELSE <<"Error", Sep, "no models to try">>

\* return failures[-1][1] if failures else "Error: no models to try"
Exhausted(failures) ==
  IF failures # <<>> THEN failures[Len(failures)][2] ELSE NoModelsMessage

\* ------------------------------------------------------------------ server.py
\* Ordered by capability: best model first, fall back to lesser models.
MODEL_FALLBACK_CHAIN ==
  <<"gemini-3-pro-preview", "gemini-3-flash-preview", "gemini-2.5-pro",
    "gemini-2.5-flash">>

\* ------------------------------------------------------------------- files.py
\* A path is the sequence of its components; an absolute path starts with "/".
_SKIP_DIRS ==
  {".git", "__pycache__", "node_modules", ".venv", ".env", ".tox", ".mypy_cache",
   ".pytest_cache", ".ruff_cache", ".next", ".nuxt", "dist", "build", ".eggs"}

_SKIP_EXTENSIONS ==
  {".png", ".jpg", ".jpeg", ".gif", ".ico", ".svg", ".bmp", ".webp",
   ".mp3", ".mp4", ".wav", ".avi", ".mov",
   ".woff", ".woff2", ".ttf", ".eot", ".otf",
   ".pyc", ".pyo", ".so", ".dll", ".dylib", ".exe", ".o", ".a", ".class",
   ".zip", ".tar", ".gz", ".bz2", ".xz", ".7z", ".rar",
   ".map"}

_SKIP_FILES == {".DS_Store"}

\* os.path.splitext(filename)[1]
SplitExt(filename) ==
  CASE filename \in {"a.py", "b.py", "c.py", "gone.py"} -> ".py"
    [] filename = "logo.PNG" -> ".PNG"
    [] filename = "x.js" -> ".js"
    [] OTHER -> ""

\* str.lower()
Lower(s) == CASE s = ".PNG" -> ".png" [] OTHER -> s

_should_skip_file(filename) ==
  IF filename \in _SKIP_FILES THEN TRUE
  ELSE Lower(SplitExt(filename)) \in _SKIP_EXTENSIONS

\* The file system. The working directory is /w:
\*   /w/a.py  /w/b.py  /w/logo.PNG  /w/sub/c.py  /w/sub/.DS_Store
\*   /w/node_modules/x.js
Cwd == <<"/", "w">>
Sub == <<"/", "w", "sub">>
NodeModules == <<"/", "w", "node_modules">>
Listing(d) ==
  CASE d = Cwd -> [dirs |-> {"sub", "node_modules"}, files |-> {"logo.PNG", "b.py", "a.py"}]
    [] d = Sub -> [dirs |-> {}, files |-> {"c.py", ".DS_Store"}]
    [] d = NodeModules -> [dirs |-> {}, files |-> {"x.js"}]
    [] OTHER -> [dirs |-> {}, files |-> {}]

\* os.path.join(dirpath, filename)
PathJoin(dirpath, filename) == Append(dirpath, filename)

\* os.path.isdir, os.path.isfile
IsDir(p) == p \in {<<"/">>, Cwd, Sub, NodeModules}
IsFile(p) ==
  /\ Len(p) > 1
  /\ p[Len(p)] \in Listing(SubSeq(p, 1, Len(p) - 1)).files

\* os.path.basename
BaseName(p) == IF p = <<>> THEN "" ELSE p[Len(p)]

\* os.path.normpath of an absolute path: "." dropped, ".." steps up.
RECURSIVE NormAcc(_, _)
NormAcc(p, acc) ==
  IF p = <<>> THEN acc
  ELSE IF Head(p) = "." THEN NormAcc(Tail(p), acc)
  ELSE IF Head(p) = ".."
         THEN NormAcc(Tail(p), IF Len(acc) > 1 THEN SubSeq(acc, 1, Len(acc) - 1) ELSE acc)
  ELSE NormAcc(Tail(p), Append(acc, Head(p)))

\* os.path.abspath
AbsPath(p) ==
  IF p # <<>> /\ Head(p) = "/" THEN NormAcc(Tail(p), <<"/">>)
  ELSE NormAcc(p, Cwd)

\* The order of str: the names that occur, smallest first.
NameOrder ==
  <<".", "..", ".DS_Store", "/", "a.py", "b.py", "c.py", "gone.py", "logo.PNG",
    "node_modules", "nodir", "sub", "w", "x.js">>
NameRank(n) == CHOOSE i \in 1..Len(NameOrder) : NameOrder[i] = n

\* p < q as strings: component by component, a prefix first.
RECURSIVE PathLess(_, _)
PathLess(p, q) ==
  IF q = <<>> THEN FALSE
  ELSE IF p = <<>> THEN TRUE
  ELSE IF Head(p) # Head(q) THEN NameRank(Head(p)) < NameRank(Head(q))
  ELSE PathLess(Tail(p), Tail(q))

\* sorted(paths)
RECURSIVE Sorted(_)
Sorted(S) ==
  IF S = {} THEN <<>>
  ELSE LET least == CHOOSE x \in S : \A y \in S \ {x} : PathLess(x, y)
       IN <<least>> \o Sorted(S \ {least})

\* sorted(names)
SortedNames(S) == LET paths == Sorted({<<n>> : n \in S})
                  IN [i \in 1..Len(paths) |-> paths[i][1]]

\* glob.glob(pattern, recursive=True): the matches, in no particular order
\* (hidden names are not matched by "*").
Glob(pattern) ==
  CASE pattern = "*.py" -> {<<"a.py">>, <<"b.py">>}
    [] pattern = "./*.py" -> {<<".", "a.py">>, <<".", "b.py">>}
    [] pattern = "**/*" ->
         {<<"a.py">>, <<"b.py">>, <<"logo.PNG">>, <<"node_modules">>,
          <<"node_modules", "x.js">>, <<"sub">>, <<"sub", "c.py">>}
    [] pattern = "/w/sub/*" -> {<<"/", "w", "sub", "c.py">>}
    [] OTHER -> {}

\* os.walk(abs_dir) with dirnames[:] = sorted(d for d in dirnames if d not in
\* _SKIP_DIRS): the (dirpath, filenames) pairs in the order they are yielded.
RECURSIVE WalkFrom(_)
RECURSIVE WalkAll(_, _)
WalkAll(d, dirnames) ==
  IF dirnames = <<>> THEN <<>>
  ELSE WalkFrom(PathJoin(d, Head(dirnames))) \o WalkAll(d, Tail(dirnames))
WalkFrom(d) ==
  <<[dirpath |-> d, filenames |-> Listing(d).files]>>
  \o WalkAll(d, SortedNames(Listing(d).dirs \ _SKIP_DIRS))
Walk(abs_dir) == WalkFrom(abs_dir)

\* len(resolved) >= max_files
AtCap(r) == Len(r.resolved) >= r.max_files

\* Variant: a path already seen is taken again.
AdmitAgain(r, abs_path, filename, filtered) ==
  IF IsFile(abs_path)
    THEN IF filtered /\ _should_skip_file(filename)
           THEN [r EXCEPT !.skipped = @ + 1]
           ELSE [r EXCEPT !.resolved = Append(@, abs_path),
                          !.seen = @ \cup {abs_path}]
    ELSE r

\* The body shared by the three loops of resolve_files: the path is appended
\* unless it was seen, is no file, or (globs and walks only) is filtered out.
Admit(r, abs_path, filename, filtered) ==
  IF abs_path \notin r.seen /\ IsFile(abs_path)
    THEN IF filtered /\ _should_skip_file(filename)
           THEN [r EXCEPT !.skipped = @ + 1]
           ELSE [r EXCEPT !.resolved = Append(@, abs_path),
                          !.seen = @ \cup {abs_path}]
    ELSE r

\* resolve_files has not been called.
NoResolve ==
  [files |-> <<>>, glob_patterns |-> <<>>, directories |-> <<>>, max_files |-> 0,
   at |-> "idle", i |-> 0, queue |-> <<>>, walk |-> <<>>, dirpath |-> <<>>,
   resolved |-> <<>>, seen |-> {}, skipped |-> 0]

\* resolve_files(files, glob_patterns, directories, max_files) is entered.
ResolveCall(files, glob_patterns, directories, max_files) ==
  [NoResolve EXCEPT !.files = files, !.glob_patterns = glob_patterns,
                    !.directories = directories, !.max_files = max_files,
                    !.at = "files", !.i = 1]

\* The arguments of resolve_files that are tried.
FileLists ==
  {<<>>,
   << <<"a.py">> >>,
   << <<".", "a.py">>, <<"a.py">> >>,
   << <<"logo.PNG">>, <<"gone.py">> >>,
   << <<"sub">>, <<"b.py">>, <<"sub", "..", "a.py">>, <<"/", "w", "b.py">> >>}
GlobLists == {<<>>, <<"*.py">>, <<"**/*", "./*.py">>, <<"nomatch/*", "/w/sub/*">>}
DirLists ==
  {<<>>, << <<".">> >>, << <<"sub">>, <<".">> >>, << <<"nodir">>, <<"/", "w", "sub">> >>}

\* os.path.getsize(path), in bytes, of the files that exist.
GetSize(path) ==
  CASE BaseName(path) = "a.py" -> 2
    [] BaseName(path) = "b.py" -> 3
    [] BaseName(path) = "logo.PNG" -> 4
    [] OTHER -> 1

\* The file's bytes are valid utf-8.
IsUtf8(path) == BaseName(path) # "logo.PNG"

\* f.read(): the text of the file.
Content(path) == <<"<text of ", BaseName(path), ">">>

\* The path as a str.
PathStr(p) ==
  IF p # <<>> /\ Head(p) = "/"
    THEN <<"/">> \o Join(<<"/">>, [i \in 1..(Len(p) - 1) |-> <<p[i + 1]>>])
    ELSE Join(<<"/">>, [i \in 1..Len(p) |-> <<p[i]>>])

\* os.path.relpath(path) of a path below the working directory.
_display_path(path) ==
  IF Len(path) > Len(Cwd) /\ SubSeq(path, 1, Len(Cwd)) = Cwd
    THEN PathStr(SubSeq(path, Len(Cwd) + 1, Len(path)))
    ELSE PathStr(path)

\* f'<file path="{display}">\n{content}\n</file>'
FileBlock(display, content) ==
  <<"<file path=\"">> \o display \o <<"\">", NL>> \o content \o <<NL, "</file>">>

\* f'<file path="{display}" error="could not read file" />'
ErrorBlock(display) ==
  <<"<file path=\"">> \o display \o <<"\" error=\"could not read file\" />">>

\* The truncation note.
TruncationNote(max_bytes, included, total) ==
  <<"<note>Context truncated: reached ", NumStr(max_bytes), " byte limit. ",
    NumStr(included), " of ", NumStr(total), " files included.</note>">>

\* read_files_as_context has not been called.
NoRead ==
  [file_paths |-> <<>>, max_bytes |-> 0, at |-> "idle", k |-> 0, blocks |-> <<>>,
   total_bytes |-> 0, included |-> 0, ret |-> <<>>]

\* read_files_as_context(file_paths, max_bytes) is entered.
ReadCall(file_paths, max_bytes) ==
  [NoRead EXCEPT !.file_paths = file_paths, !.max_bytes = max_bytes,
                 !.at = "loop", !.k = 1]

\* Variant: a file that does not fit is passed over and the loop goes on.
ReadOneSkipOversized(r) ==
  LET path == r.file_paths[r.k]
      display == _display_path(path)
      failed == [r EXCEPT !.blocks = Append(@, ErrorBlock(display)),
                          !.included = @ + 1, !.k = @ + 1]
  IN IF ~IsFile(path) THEN failed
     ELSE IF r.total_bytes + GetSize(path) > r.max_bytes THEN [r EXCEPT !.k = @ + 1]
     ELSE IF ~IsUtf8(path) THEN failed
     ELSE [r EXCEPT !.blocks = Append(@, FileBlock(display, Content(path))),
                    !.total_bytes = @ + GetSize(path),
                    !.included = @ + 1, !.k = @ + 1]

\* One iteration of the loop of read_files_as_context: getsize or open raises
\* OSError for what is no file, read raises UnicodeDecodeError for bytes that
\* are not utf-8; the loop is left at the first file that does not fit.
ReadOne(r) ==
  LET path == r.file_paths[r.k]
      display == _display_path(path)
      failed == [r EXCEPT !.blocks = Append(@, ErrorBlock(display)),
                          !.included = @ + 1, !.k = @ + 1]
  IN IF ~IsFile(path) THEN failed
     ELSE IF r.total_bytes + GetSize(path) > r.max_bytes THEN [r EXCEPT !.at = "tail"]
     ELSE IF ~IsUtf8(path) THEN failed
     ELSE [r EXCEPT !.blocks = Append(@, FileBlock(display, Content(path))),
                    !.total_bytes = @ + GetSize(path),
                    !.included = @ + 1, !.k = @ + 1]

\* After the loop: the note when files are left, then "\n\n".join(blocks).
ReadTail(r) ==
  LET blocks ==
        IF r.included < Len(r.file_paths)
          THEN Append(r.blocks,
                      TruncationNote(r.max_bytes, r.included, Len(r.file_paths)))
          ELSE r.blocks
  IN [r EXCEPT !.blocks = blocks, !.ret = Join(<<NL, NL>>, blocks), !.at = "done"]

\* The file_paths arguments of read_files_as_context that are tried.
PathLists ==
  LET a == <<"/", "w", "a.py">>
      b == <<"/", "w", "b.py">>
      c == <<"/", "w", "sub", "c.py">>
      logo == <<"/", "w", "logo.PNG">>
      gone == <<"/", "w", "gone.py">>
  IN {<<>>, <<a>>, <<b>>, <<a, b>>, <<b, a>>, <<a, b, c>>, <<b, c, a>>, <<logo>>,
      <<logo, a, b>>, <<gone, b, a>>, <<a, gone, logo>>, <<b, logo, b>>, <<a, a, a>>}

\* ------------------------------------------------------------ the environment
Names == {"A", "B"}
GeminiPath == "/usr/bin/gemini"
SessionIds == {None, "tok"}
PriorityLists == UNION {[1..k -> Names] : k \in 0..MaxModels}

\* What the external process can do.
\* Its output is free at every attempt (FreePlan), or the call's plan fixes its
\* stdout, its stderr, or the payload its stdout carries.
FreePlan == [kind |-> "free", stdout |-> <<>>, stderr |-> <<>>, data |-> PyNull]
ReturnCodes == {1}
OSErrors == {<<T_PermDenied, Sep, "'gemini'">>}
Stderrs == {<<>>, <<T_ModelNotFound, NL>>, <<T_RateLimit>>, <<T_TempUnavail>>, <<BadByte>>}
Stdouts ==
  { <<J_Plain>>,
    <<J_Stats, NL>>,
    <<"Warning", Sep, "new version available", NL, J_Plain>>,
    <<"plain answer">>,
    <<J_List>>,
    <<J_NumResp>>,
    <<J_NullStats>>,
    <<"noise", NL, J_ListModels>>,
    <<J_Plain, NL, J_List>>,
    <<BadByte>> }
\* The stderr texts of a planned call: up to MaxTextLines lines, each one
\* message of the vocabulary.
ErrorVocabulary ==
  {T_RateLimit, T_TempUnavail, T_ModelNotFound, T_Quota, T_404, T_UnknownError}
TextLines(toks) == Join(<<NL>>, [i \in 1..Len(toks) |-> <<toks[i]>>])
StderrPlans ==
  { [FreePlan EXCEPT !.kind = "stderr", !.stderr = TextLines(l)] :
      l \in UNION {[1..k -> ErrorVocabulary] : k \in 0..MaxTextLines} }

\* The stdouts of a planned call: up to MaxLines lines, each a line of text,
\* a blank line or a JSON document.
StdoutLines ==
  { <<"Loaded cached credentials.">>,
    <<"Warning", Sep, "{braces} in a warning">>,
    <<>>,
    <<J_Plain>>, <<J_Stats>>, <<J_NullStats>>, <<J_List>>, <<J_ListModels>> }
StdoutPlans ==
  { [FreePlan EXCEPT !.kind = "stdout", !.stdout = Join(<<NL>>, l)] :
      l \in UNION {[1..k -> StdoutLines] : k \in 1..MaxLines} }

\* The payloads of a planned call: "response", with or without "session_id",
\* and "stats" absent, empty, or with a usage mapping of up to MaxEntries
\* backend entries, each with or without its counts.
EntryNames == <<"R", "M", "X">>
Tokens(keys, f) == PyDict(<<"tokens">>, "tokens" :> PyDict(keys, f))
EntryValues ==
  { EmptyDict,
    Tokens(<<"input">>, "input" :> PyNum(5)),
    Tokens(<<"candidates">>, "candidates" :> PyNum(1)),
    Tokens(<<"input", "candidates">>, "input" :> PyNum(7) @@ "candidates" :> PyNum(1)),
    Tokens(<<"input", "candidates">>, "input" :> PyNum(5) @@ "candidates" :> PyNum(2)),
    Tokens(<<"input", "candidates">>, "input" :> PyNum(7) @@ "candidates" :> PyNum(0)) }
ModelMap(e) ==
  IF e = <<>> THEN EmptyDict
  ELSE PyDict(SubSeq(EntryNames, 1, Len(e)),
              [n \in {EntryNames[i] : i \in 1..Len(e)} |->
                 e[CHOOSE i \in 1..Len(e) : EntryNames[i] = n]])
ModelMaps == {ModelMap(e) : e \in UNION {[1..k -> EntryValues] : k \in 0..MaxEntries}}
\* PyNull for st: no "stats" key.
Payload(sid, st) ==
  LET keys == (IF sid THEN <<"session_id">> ELSE <<>>) \o <<"response">> \o
              (IF st # PyNull THEN <<"stats">> ELSE <<>>)
  IN PyDict(keys, [k \in {keys[i] : i \in 1..Len(keys)} |->
                     CASE k = "session_id" -> PyStr(<<"s1">>)
                       [] k = "response" -> PyStr(<<"hello">>)
                       [] k = "stats" -> st])
Payloads ==
  { Payload(sid, st) :
      sid \in BOOLEAN,
      st \in {PyNull, EmptyDict} \cup {PyDict(<<"models">>, "models" :> m) : m \in ModelMaps} }
PayloadPlans == {[FreePlan EXCEPT !.kind = "payload", !.data = d] : d \in Payloads}

\* The context argument: empty, two blocks of file text, a lone surrogate.
Contexts == {<<>>, <<"<file a>", NL, NL, "<file b>">>, <<"<file a>", Surrogate>>}

PlannedStdouts ==
  CASE plan.kind \in {"stdout", "both"} -> {plan.stdout}
    [] plan.kind = "payload" -> {<<J_Payload>>}
    [] OTHER -> Stdouts
PlannedStderrs == IF plan.kind \in {"stderr", "both"} THEN {plan.stderr} ELSE Stderrs

\* The processes of two concurrent calls: what they print is fixed, how each
\* attempt ends is not.
BothPlans ==
  { [FreePlan EXCEPT !.kind = "both", !.stdout = <<J_Stats, NL>>, !.stderr = e] :
      e \in {<<T_RateLimit>>, <<T_ModelNotFound, NL>>} }

\* ----------------------------------------------------------------------- state
VARIABLES
  model, models, session_id,   \* run_gemini's arguments
  context,                     \* run_gemini's context argument
  rf,                          \* resolve_files: its arguments, locals and position
  rd,                          \* read_files_as_context: the same
  other,                       \* a second run_gemini call, while it does not run
  gemini_path,                 \* shutil.which("gemini")
  pc,                          \* where the call is: query, start, spawn, wait, sleep,
                               \* done, raised
  to_try, idx,                 \* the candidate list and the for loop's position in it
  attempt,                     \* _call_with_retries' loop variable
  current_session_id, failures, last_error,
  outcome,                     \* (success, result, stats) of the latest attempt
  ret, exc,                    \* the returned string; the exception raised
  trace,                       \* history: every process start and every sleep
  alive                        \* the started processes still running (positions in trace)

vars ==
  <<rf, rd, other, model, models, session_id, context, gemini_path, pc, to_try, idx, attempt,
    current_session_id, failures, last_error, outcome, ret, exc, trace, alive, plan>>

\* ------------------------------------------------------------------- histories

NoOutcome == Outcome(FALSE, PyNull, NoStats)

CallEvent(cand, n, cmd) ==
  [ev |-> "call", cand |-> cand, attempt |-> n, cmd |-> cmd, secs |-> 0,
   res |-> "pending", how |-> "pending", stdin |-> FALSE, input |-> <<>>]
\* Variant: the delay grows with the attempt number.
SleepEventBackoff(cand, n) ==
  [ev |-> "sleep", cand |-> cand, attempt |-> n, cmd |-> <<>>,
   secs |-> _RETRY_DELAY_SECS * (n + 1), res |-> "slept", how |-> "sleep",
   stdin |-> FALSE, input |-> <<>>]

SleepEvent(cand, n) ==
  [ev |-> "sleep", cand |-> cand, attempt |-> n, cmd |-> <<>>,
   secs |-> _RETRY_DELAY_SECS, res |-> "slept", how |-> "sleep",
   stdin |-> FALSE, input |-> <<>>]

\* The history with the latest call's result filled in.
Mark(tr, res) == [tr EXCEPT ![Len(tr)].res = res]
\* The history with the way the latest call ended filled in: "oserror",
\* "timeout", "nonzero" or "zero".
How(tr, h) == [tr EXCEPT ![Len(tr)].how = h]

\* How an attempt ended, for the history: "success", or the class of its
\* failure text, "permanent" (permanent or unknown: fall back) or "transient".
Class(out) ==
  IF out.success THEN "success"
  ELSE IF _should_fallback(out.result.s) THEN "permanent"
  ELSE "transient"

\* The locals and arguments of a call that has not begun; id 0: there is no
\* second call.
NoOther ==
  [id |-> 0, model |-> None, models |-> ModelsNone, session_id |-> None,
   context |-> <<>>, gemini_path |-> None, pc |-> "start", to_try |-> <<>>,
   idx |-> 0, attempt |-> 0, current_session_id |-> None, failures |-> <<>>,
   last_error |-> <<>>, outcome |-> NoOutcome, ret |-> <<>>, exc |-> "none",
   trace |-> <<>>, alive |-> {}]

\* Nothing of the call has run yet.
Idle ==
  /\ gemini_path = None
  /\ pc = "start"
  /\ to_try = <<>>
  /\ idx = 0
  /\ attempt = 0
  /\ current_session_id = None
  /\ failures = <<>>
  /\ last_error = <<>>
  /\ outcome = NoOutcome
  /\ ret = <<>>
  /\ exc = "none"
  /\ trace = <<>>
  /\ alive = {}
  /\ rf = NoResolve
  /\ rd = NoRead

\* A call of run_gemini with any arguments; the process is free at every attempt.
Init ==
  /\ model \in {None} \cup Names
  /\ models \in {ModelsNone} \cup {ModelsList(l) : l \in PriorityLists}
  /\ session_id \in SessionIds
  /\ context = <<>>
  /\ plan = FreePlan
  /\ other = NoOther
  /\ Idle

\* A call of run_gemini whose process prints what the plan says.
InitPlanned ==
  /\ model = None
  /\ models \in {ModelsNone, ModelsList(<<"A", "B">>)}
  /\ session_id = None
  /\ context = <<>>
  /\ plan \in StderrPlans \cup PayloadPlans \cup StdoutPlans
  /\ other = NoOther
  /\ Idle

\* A call of run_gemini with a context: none, some text, text utf-8 cannot encode.
InitContext ==
  /\ model = None
  /\ models \in {ModelsNone, ModelsList(<<"A", "B">>)}
  /\ session_id = None
  /\ context \in Contexts
  /\ plan = FreePlan
  /\ other = NoOther
  /\ Idle

\* The public tool gemini_query is called: its model and session_id arguments.
InitQuery ==
  /\ model \in {None, "A"}
  /\ models = ModelsNone
  /\ session_id \in SessionIds
  /\ context = <<>>
  /\ plan = FreePlan
  /\ gemini_path = None
  /\ pc = "query"
  /\ to_try = <<>>
  /\ idx = 0
  /\ attempt = 0
  /\ current_session_id = None
  /\ failures = <<>>
  /\ last_error = <<>>
  /\ outcome = NoOutcome
  /\ ret = <<>>
  /\ exc = "none"
  /\ trace = <<>>
  /\ alive = {}
  /\ rf = NoResolve
  /\ rd = NoRead
  /\ other = NoOther

\* Variant: gemini_query passes the fallback chain whatever model is.
GeminiQueryAlwaysChain ==
  /\ pc = "query"
  /\ models' = ModelsList(MODEL_FALLBACK_CHAIN)
  /\ pc' = "start"
  /\ UNCHANGED <<plan, context, rf, rd, other, model, session_id, gemini_path, to_try, idx, attempt,
                 current_session_id, failures, last_error, outcome, ret, exc, trace,
                 alive>>

\* gemini_query: the files it resolves and reads reach run_gemini as context
\* and skipped_files only; then run_gemini(model=model,
\*   models=None if model else MODEL_FALLBACK_CHAIN, session_id=session_id, ...)
GeminiQuery ==
  /\ pc = "query"
  /\ models' = IF model \notin {None, ""} THEN ModelsNone
                ELSE ModelsList(MODEL_FALLBACK_CHAIN)
  /\ pc' = "start"
  /\ UNCHANGED <<plan, context, rf, rd, other, model, session_id, gemini_path, to_try, idx, attempt,
                 current_session_id, failures, last_error, outcome, ret, exc, trace,
                 alive>>

\* Variant: no early return when shutil.which finds nothing.
RunGeminiNoEarlyReturn ==
  /\ pc = "start"
  /\ gemini_path' = None
  /\ to_try' = ToTry(model, models)
  /\ current_session_id' = session_id
  /\ idx' = 1
  /\ pc' = "spawn"
  /\ UNCHANGED <<plan, context, rf, rd, other, model, models, session_id, attempt, failures, last_error,
                 outcome, ret, exc, trace, alive>>

\* shutil.which finds nothing: return "Error: gemini CLI not found in PATH"
RunGeminiNotFound ==
  /\ pc = "start"
  /\ gemini_path' = None
  /\ ret' = NotFoundMessage
  /\ pc' = "done"
  /\ UNCHANGED <<plan, context, rf, rd, other, model, models, session_id, to_try, idx, attempt,
                 current_session_id, failures, last_error, outcome, exc, trace,
                 alive>>

\* run_gemini up to the first _call_gemini
RunGeminiStart ==
  /\ pc = "start"
  /\ gemini_path' = GeminiPath
  /\ to_try' = ToTry(model, models)
  /\ failures' = <<>>
  /\ current_session_id' = session_id
  /\ attempt' = 0
  /\ last_error' = <<>>
  /\ IF to_try' = <<>>
       THEN /\ ret' = Exhausted(<<>>)
            /\ pc' = "done"
            /\ idx' = 0
       ELSE /\ ret' = ret
            /\ pc' = "spawn"
            /\ idx' = 1
  /\ UNCHANGED <<plan, context, rf, rd, other, model, models, session_id, outcome, exc, trace, alive>>

\* An exception leaves _call_gemini, _call_with_retries and run_gemini.
Raised(e, tr) ==
  /\ pc' = "raised"
  /\ exc' = e
  /\ trace' = Mark(tr, "raised")
  /\ UNCHANGED <<idx, attempt, current_session_id, failures, last_error, outcome, ret>>

\* Variant: after a success the remaining candidates are tried as well.
SucceededKeepsGoing(out, tr) ==
  /\ trace' = Mark(tr, Class(out))
  /\ outcome' = out
  /\ exc' = exc
  /\ ret' = Render(out.result)
  /\ IF idx < Len(to_try)
       THEN idx' = idx + 1 /\ attempt' = 0 /\ pc' = "spawn"
       ELSE pc' = "done" /\ UNCHANGED <<idx, attempt>>
  /\ UNCHANGED <<current_session_id, failures, last_error>>

\* _call_with_retries returned (True, result, stats): run_gemini composes.
Succeeded(out, tr) ==
  LET c == Compose(failures, to_try[idx], out.result, out.stats) IN
  /\ trace' = Mark(tr, Class(out))
  /\ outcome' = out
  /\ IF c.exc # "none"
       THEN pc' = "raised" /\ exc' = c.exc /\ ret' = ret
       ELSE pc' = "done" /\ exc' = exc /\ ret' = c.val
  /\ UNCHANGED <<idx, attempt, current_session_id, failures, last_error>>

\* _call_with_retries returned (False, text, None): record it, next candidate.
CandidateFailed(out, text, tr) ==
  /\ trace' = Mark(tr, Class(out))
  /\ outcome' = out
  /\ failures' = Append(failures, <<NameOf(to_try[idx]), text>>)
  /\ current_session_id' = SessionAfterFailure(current_session_id)
  /\ exc' = exc
  /\ IF idx < Len(to_try)
       THEN /\ idx' = idx + 1
            /\ attempt' = 0
            /\ pc' = "spawn"
            /\ ret' = ret
       ELSE /\ ret' = Exhausted(failures')
            /\ pc' = "done"
            /\ UNCHANGED <<idx, attempt>>
  /\ last_error' = <<>>

\* Variant: the retry starts at once, without the delay.
RetryWithoutDelay(out, tr) ==
  /\ trace' = Mark(tr, Class(out))
  /\ outcome' = out
  /\ last_error' = LastError(last_error, out.result.s)
  /\ attempt' = attempt + 1
  /\ pc' = "spawn"
  /\ UNCHANGED <<idx, current_session_id, failures, ret, exc>>

\* Transient failure with attempts left: await asyncio.sleep(_RETRY_DELAY_SECS)
Retry(out, tr) ==
  /\ trace' = Append(Mark(tr, Class(out)), SleepEvent(idx, attempt))
  /\ outcome' = out
  /\ last_error' = LastError(last_error, out.result.s)
  /\ pc' = "sleep"
  /\ UNCHANGED <<idx, attempt, current_session_id, failures, ret, exc>>

\* _call_gemini ended with r (an outcome or an exception); tr is the history.
Finish(r, tr) ==
  IF r.exc # "none" THEN Raised(r.exc, tr)
  ELSE LET out == r.val
           act == AfterAttempt(out, attempt) IN
       CASE act = "success" -> Succeeded(out, tr)
         [] act = "fallback" -> CandidateFailed(out, out.result.s, tr)
         [] act = "exhausted" ->
              CandidateFailed(out, LastError(last_error, out.result.s), tr)
         [] act = "sleep" -> Retry(out, tr)

\* Variant: every call is given the caller's session id.
ThisCallOriginalSession ==
  CallEvent(idx, attempt, Cmd(gemini_path, to_try[idx], session_id))

\* Variant: only the first attempt of the call is given the context.
WithStdinFirstAttempt(e, stdin_data) ==
  IF e.cand = 1 /\ e.attempt = 0
    THEN [e EXCEPT !.stdin = ~stdin_data.isNone /\ stdin_data.bytes # <<>>,
                   !.input = stdin_data.bytes]
    ELSE e

\* stdin=PIPE if stdin_data else None; communicate(input=stdin_data)
WithStdin(e, stdin_data) ==
  [e EXCEPT !.stdin = ~stdin_data.isNone /\ stdin_data.bytes # <<>>,
            !.input = stdin_data.bytes]

\* The process _call_gemini starts: candidate, attempt number, command line,
\* and what it is given on its standard input.
ThisCall ==
  WithStdin(CallEvent(idx, attempt, Cmd(gemini_path, to_try[idx], current_session_id)),
            StdinData(context))

\* context.encode() raises before the process is started
EncodeFails ==
  /\ pc = "spawn"
  /\ context # <<>>
  /\ Encode(context).exc # "none"
  /\ pc' = "raised"
  /\ exc' = Encode(context).exc
  /\ UNCHANGED <<plan, context, rf, rd, other, model, models, session_id, gemini_path, to_try, idx,
                 attempt, current_session_id, failures, last_error, outcome, ret,
                 trace, alive>>

\* stdin_data is computed
Encoded == context = <<>> \/ Encode(context).exc = "none"

\* create_subprocess_exec raises OSError
SpawnFails ==
  /\ pc = "spawn"
  /\ Encoded
  /\ \E e \in OSErrors :
       Finish(Ok(OSErrorOutcome(e)), How(Append(trace, ThisCall), "oserror"))
  /\ alive' = alive
  /\ UNCHANGED <<plan, context, rf, rd, other, model, models, session_id, gemini_path, to_try>>

\* create_subprocess_exec starts the process
SpawnOk ==
  /\ pc = "spawn"
  /\ Encoded
  /\ trace' = Append(trace, ThisCall)
  /\ alive' = alive \cup {Len(trace')}
  /\ pc' = "wait"
  /\ UNCHANGED <<plan, context, rf, rd, other, model, models, session_id, gemini_path, to_try, idx, attempt,
                 current_session_id, failures, last_error, outcome, ret, exc>>

\* wait_for(proc.communicate(), timeout) raises TimeoutError: communicate() is
\* cancelled and the error text returned; nothing is done to the process.
WaitTimeout ==
  /\ pc = "wait"
  /\ Finish(Ok(TimeoutOutcome), How(trace, "timeout"))
  /\ alive' = alive
  /\ UNCHANGED <<plan, context, rf, rd, other, model, models, session_id, gemini_path, to_try>>

\* How the attempt is recorded to have ended: as a cancellation, when a
\* cancellation of the task was lost while the process exited.
EndedWith(h) == IF pc = "lost" THEN "cancelled" ELSE h

\* the process exits with a nonzero status
ProcExitsNonzero ==
  /\ pc \in {"wait", "lost"}
  /\ \E rc \in ReturnCodes, stderr \in PlannedStderrs :
       Finish(ExitFailure(rc, stderr), How(trace, EndedWith("nonzero")))
  /\ alive' = alive \ {Len(trace)}
  /\ UNCHANGED <<plan, context, rf, rd, other, model, models, session_id, gemini_path, to_try>>

\* the process exits with status zero
ProcExitsZero ==
  /\ pc \in {"wait", "lost"}
  /\ \E stdout \in PlannedStdouts :
       Finish(ExitSuccess(stdout), How(trace, EndedWith("zero")))
  /\ alive' = alive \ {Len(trace)}
  /\ UNCHANGED <<plan, context, rf, rd, other, model, models, session_id, gemini_path, to_try>>

\* asyncio.sleep returns: the next iteration of _call_with_retries' loop
SleepDone ==
  /\ pc = "sleep"
  /\ attempt' = attempt + 1
  /\ pc' = "spawn"
  /\ UNCHANGED <<plan, context, rf, rd, other, model, models, session_id, gemini_path, to_try, idx,
                 current_session_id, failures, last_error, outcome, ret, exc, trace,
                 alive>>

\* A process left running by a timed-out attempt exits on its own; the event
\* loop's child watcher then reaps it.
OrphanExits ==
  /\ \E p \in alive :
       /\ ~(pc \in {"wait", "lost"} /\ p = Len(trace))
       /\ alive' = alive \ {p}
  /\ UNCHANGED <<plan, context, rf, rd, other, model, models, session_id, gemini_path, pc, to_try, idx,
                 attempt, current_session_id, failures, last_error, outcome, ret,
                 exc, trace>>

\* The task running run_gemini is cancelled while it waits for the process:
\* wait_for cancels communicate() and CancelledError, which no except clause
\* of the module catches, leaves run_gemini. Nothing is done to the process.
CancelWait ==
  /\ pc = "wait"
  /\ trace' = Mark(How(trace, "cancelled"), "cancelled")
  /\ pc' = "cancelled"
  /\ exc' = "CancelledError"
  /\ UNCHANGED <<plan, context, rf, rd, other, model, models, session_id, gemini_path, to_try, idx, attempt,
                 current_session_id, failures, last_error, outcome, ret, alive>>

\* The task is cancelled in the loop iteration in which communicate() has
\* finished, before run_gemini resumes: up to Python 3.11 wait_for then returns
\* the finished result and the cancellation is lost. The process exits next.
CancelLost ==
  /\ pc = "wait"
  /\ pc' = "lost"
  /\ UNCHANGED <<plan, context, rf, rd, other, model, models, session_id, gemini_path,
                 to_try, idx, attempt, current_session_id, failures, last_error,
                 outcome, ret, exc, trace, alive>>

\* The task is cancelled during asyncio.sleep(_RETRY_DELAY_SECS).
CancelSleep ==
  /\ pc = "sleep"
  /\ trace' = How(trace, "cancelled")
  /\ pc' = "cancelled"
  /\ exc' = "CancelledError"
  /\ UNCHANGED <<plan, context, rf, rd, other, model, models, session_id, gemini_path, to_try, idx, attempt,
                 current_session_id, failures, last_error, outcome, ret, alive>>

Next ==
  \/ RunGeminiNotFound
  \/ RunGeminiStart
  \/ SpawnFails
  \/ SpawnOk
  \/ WaitTimeout
  \/ ProcExitsNonzero
  \/ ProcExitsZero
  \/ SleepDone
  \/ OrphanExits

Spec == Init /\ [][Next]_vars

SpecPlanned == InitPlanned /\ [][Next]_vars

\* A call of the public tool: gemini_query, then run_gemini.
NextQuery ==
  \/ GeminiQuery
  \/ Next

SpecQuery == InitQuery /\ [][NextQuery]_vars

\* A call of run_gemini whose task may be cancelled at an await.
NextCancel ==
  \/ CancelWait
  \/ CancelLost
  \/ CancelSleep
  \/ Next

\* A call of run_gemini with a list of two candidates or none; what the
\* process prints is fixed.
InitCancel ==
  /\ model = None
  /\ models \in {ModelsNone, ModelsList(<<"A", "B">>)}
  /\ session_id = None
  /\ context = <<>>
  /\ plan \in BothPlans
  /\ other = NoOther
  /\ Idle

SpecCancel == InitCancel /\ [][NextCancel]_vars

\* ----------------------------------------------------- files.py: the two calls
\* The variables of a run_gemini call.
callvars ==
  <<plan, context, model, models, session_id, gemini_path, pc, to_try, idx, attempt,
    current_session_id, failures, last_error, outcome, ret, exc, trace, alive,
    other>>

\* No run_gemini call is under way.
NoCall ==
  /\ model = None
  /\ models = ModelsNone
  /\ session_id = None
  /\ context = <<>>
  /\ plan = FreePlan
  /\ gemini_path = None
  /\ pc = "query"
  /\ to_try = <<>>
  /\ idx = 0
  /\ attempt = 0
  /\ current_session_id = None
  /\ failures = <<>>
  /\ last_error = <<>>
  /\ outcome = NoOutcome
  /\ ret = <<>>
  /\ exc = "none"
  /\ trace = <<>>
  /\ alive = {}
  /\ other = NoOther

\* resolve_files is called with some files, patterns, directories and cap.
InitFiles ==
  /\ NoCall
  /\ \E files \in FileLists, glob_patterns \in GlobLists, directories \in DirLists,
        max_files \in 0..MaxFiles :
       rf = ResolveCall(files, glob_patterns, directories, max_files)
  /\ rd = NoRead

\* read_files_as_context is called with some paths and a byte limit.
InitRead ==
  /\ NoCall
  /\ rf = NoResolve
  /\ \E file_paths \in PathLists, max_bytes \in 0..MaxBytes :
       rd = ReadCall(file_paths, max_bytes)

\* for path in files or []: one iteration, or the end of the loop
ExplicitFile ==
  /\ rf.at = "files"
  /\ IF rf.i > Len(rf.files) \/ AtCap(rf)
       THEN rf' = [rf EXCEPT !.at = "globs", !.i = 1]
       ELSE LET abs_path == AbsPath(rf.files[rf.i])
            IN rf' = [Admit(rf, abs_path, BaseName(abs_path), FALSE) EXCEPT !.i = @ + 1]
  /\ UNCHANGED <<callvars, rd>>

\* for pattern in glob_patterns or []: the pattern is expanded, or the loop ends
GlobPattern ==
  /\ rf.at = "globs"
  /\ IF rf.i > Len(rf.glob_patterns) \/ AtCap(rf)
       THEN rf' = [rf EXCEPT !.at = "dirs", !.i = 1]
       ELSE rf' = [rf EXCEPT !.at = "paths",
                             !.queue = Sorted(Glob(rf.glob_patterns[rf.i]))]
  /\ UNCHANGED <<callvars, rd>>

\* for path in sorted(glob(...)): one iteration, or the end of the loop
GlobPath ==
  /\ rf.at = "paths"
  /\ IF rf.queue = <<>> \/ AtCap(rf)
       THEN rf' = [rf EXCEPT !.at = "globs", !.i = @ + 1, !.queue = <<>>]
       ELSE LET abs_path == AbsPath(Head(rf.queue))
            IN rf' = [Admit(rf, abs_path, BaseName(abs_path), TRUE)
                        EXCEPT !.queue = Tail(@)]
  /\ UNCHANGED <<callvars, rd>>

\* for directory in directories or []: the walk is started, the directory is
\* passed over when it is none, or the loop ends
Directory ==
  /\ rf.at = "dirs"
  /\ IF rf.i > Len(rf.directories) \/ AtCap(rf)
       THEN rf' = [rf EXCEPT !.at = "done"]
       ELSE LET abs_dir == AbsPath(rf.directories[rf.i])
            IN IF ~IsDir(abs_dir)
                 THEN rf' = [rf EXCEPT !.i = @ + 1]
                 ELSE rf' = [rf EXCEPT !.at = "walk", !.walk = Walk(abs_dir)]
  /\ UNCHANGED <<callvars, rd>>

\* for dirpath, dirnames, filenames in os.walk(abs_dir): the next directory of
\* the walk, or the end of the walk
WalkDir ==
  /\ rf.at = "walk"
  /\ IF rf.walk = <<>> \/ AtCap(rf)
       THEN rf' = [rf EXCEPT !.at = "dirs", !.i = @ + 1, !.walk = <<>>]
       ELSE rf' = [rf EXCEPT !.at = "names",
                             !.dirpath = Head(rf.walk).dirpath,
                             !.queue = SortedNames(Head(rf.walk).filenames),
                             !.walk = Tail(@)]
  /\ UNCHANGED <<callvars, rd>>

\* for filename in sorted(filenames): one iteration, or the end of the loop
WalkFile ==
  /\ rf.at = "names"
  /\ IF rf.queue = <<>> \/ AtCap(rf)
       THEN rf' = [rf EXCEPT !.at = "walk", !.queue = <<>>, !.dirpath = <<>>]
       ELSE LET filename == Head(rf.queue)
            IN rf' = [Admit(rf, PathJoin(rf.dirpath, filename), filename, TRUE)
                        EXCEPT !.queue = Tail(@)]
  /\ UNCHANGED <<callvars, rd>>

NextFiles ==
  \/ ExplicitFile
  \/ GlobPattern
  \/ GlobPath
  \/ Directory
  \/ WalkDir
  \/ WalkFile

\* A call of resolve_files.
SpecFiles == InitFiles /\ [][NextFiles]_vars

\* if not file_paths: return ""
ReadEmpty ==
  /\ rd.at = "loop"
  /\ rd.file_paths = <<>>
  /\ rd' = [rd EXCEPT !.at = "done", !.ret = <<>>]
  /\ UNCHANGED <<callvars, rf>>

\* for path in file_paths: one iteration
ReadFile ==
  /\ rd.at = "loop"
  /\ rd.file_paths # <<>>
  /\ rd.k <= Len(rd.file_paths)
  /\ rd' = ReadOne(rd)
  /\ UNCHANGED <<callvars, rf>>

\* the loop has ended or was left: the note, the join, the return
ReadReturn ==
  /\ \/ rd.at = "tail"
     \/ rd.at = "loop" /\ rd.file_paths # <<>> /\ rd.k > Len(rd.file_paths)
  /\ rd' = ReadTail(rd)
  /\ UNCHANGED <<callvars, rf>>

NextRead ==
  \/ ReadEmpty
  \/ ReadFile
  \/ ReadReturn

\* A call of read_files_as_context.
SpecRead == InitRead /\ [][NextRead]_vars

\* ------------------------------------------------------- two concurrent calls
\* The call that runs, as a record.
Running(id) ==
  [id |-> id, model |-> model, models |-> models, session_id |-> session_id,
   context |-> context, gemini_path |-> gemini_path, pc |-> pc, to_try |-> to_try,
   idx |-> idx, attempt |-> attempt, current_session_id |-> current_session_id,
   failures |-> failures, last_error |-> last_error, outcome |-> outcome,
   ret |-> ret, exc |-> exc, trace |-> trace, alive |-> alive]

\* The arguments two concurrent calls are given.
CallArgs ==
  { [NoOther EXCEPT !.models = ModelsList(<<"A", "B">>), !.session_id = "tok"],
    [NoOther EXCEPT !.model = "B"] }

\* Two calls of run_gemini in one event loop, neither has begun; call 1 is
\* the one to run first.
InitConcurrent ==
  /\ plan \in BothPlans
  /\ rf = NoResolve
  /\ rd = NoRead
  /\ \E mine \in CallArgs, theirs \in CallArgs :
       /\ model = mine.model
       /\ models = mine.models
       /\ session_id = mine.session_id
       /\ other = [theirs EXCEPT !.id = 2]
  /\ context = <<>>
  /\ Idle

\* Variant: the failure list is one list that both calls use.
SwitchSharedFailures ==
  /\ other.id # 0
  /\ other' = [Running(3 - other.id) EXCEPT !.failures = <<>>]
  /\ model' = other.model
  /\ models' = other.models
  /\ session_id' = other.session_id
  /\ context' = other.context
  /\ gemini_path' = other.gemini_path
  /\ pc' = other.pc
  /\ to_try' = other.to_try
  /\ idx' = other.idx
  /\ attempt' = other.attempt
  /\ current_session_id' = other.current_session_id
  /\ failures' = failures
  /\ last_error' = other.last_error
  /\ outcome' = other.outcome
  /\ ret' = other.ret
  /\ exc' = other.exc
  /\ trace' = other.trace
  /\ alive' = other.alive
  /\ UNCHANGED <<plan, rf, rd>>

\* The event loop leaves the running call at an await (or before its first
\* step, or after its last) and resumes the other one: every local of
\* run_gemini, _call_with_retries and _call_gemini belongs to the call's own
\* frames, so the suspended call keeps its own and the resumed call finds its
\* own.
Switch ==
  /\ other.id # 0
  /\ other' = Running(3 - other.id)
  /\ model' = other.model
  /\ models' = other.models
  /\ session_id' = other.session_id
  /\ context' = other.context
  /\ gemini_path' = other.gemini_path
  /\ pc' = other.pc
  /\ to_try' = other.to_try
  /\ idx' = other.idx
  /\ attempt' = other.attempt
  /\ current_session_id' = other.current_session_id
  /\ failures' = other.failures
  /\ last_error' = other.last_error
  /\ outcome' = other.outcome
  /\ ret' = other.ret
  /\ exc' = other.exc
  /\ trace' = other.trace
  /\ alive' = other.alive
  /\ UNCHANGED <<plan, rf, rd>>

NextConcurrent ==
  \/ Switch
  \/ Next

SpecConcurrent == InitConcurrent /\ [][NextConcurrent]_vars

\* A call of run_gemini with a context.
NextContext ==
  \/ EncodeFails
  \/ Next

SpecContext == InitContext /\ [][NextContext]_vars

\* ====================================================================== claims
\* The process starts of the history, in order.
Calls == SelectSeq(trace, LAMBDA e : e.ev = "call")
Sleeps == SelectSeq(trace, LAMBDA e : e.ev = "sleep")
CallIdx == {i \in 1..Len(trace) : trace[i].ev = "call"}
\* The command line carries "-r <session id>" / "-m <name>".
HasToken(e) == \E i \in 1..Len(e.cmd) : e.cmd[i] = "-r"
HasModel(e, name) == Contains(e.cmd, <<"-m", name>>)
\* The classes of the attempts made so far.
Classes == [i \in 1..Len(Calls) |-> Calls[i].res]
Ended == pc \in {"done", "raised"}
\* A call with a pinned backend and no priority list.
Pinned == model # None /\ models.items = <<>>
WarningHead == <<"[WARNING", Sep, "Fell back to ">>
HasWarning(s) == Contains(s, <<"[WARNING">>)
HasFooter(s) == Contains(s, <<"---">>)
WarningNames(s, used, failed) ==
  /\ Contains(s, WarningHead \o <<NameOf(used), "]">>)
  /\ Contains(s, <<NL, "  - ", NameOf(failed), Sep>>)

\* C1: run_gemini never raises: whatever the external process does, the call
\* ends by returning a string (no exception leaves run_gemini).
C1_NeverRaises == pc # "raised" /\ exc = "none"

\* C2: when shutil.which finds no executable, run_gemini returns a string
\* containing "not found" and starts no process, retries nothing and falls back
\* to nothing, whatever model, models and session id were given.
C2_NotFoundNoAttempts ==
  (pc # "start" /\ gemini_path = None) =>
     /\ pc = "done"
     /\ Contains(ret, <<"not found">>)
     /\ trace = <<>>
     /\ failures = <<>>

C2_Witness ==
  /\ pc = "done" /\ gemini_path = None
  /\ model # None /\ models.items # <<>> /\ session_id # None
  /\ ret = NotFoundMessage

\* C3: a pinned backend makes run_gemini ignore the priority list: the
\* candidate list is exactly [model] and every attempt is made on that backend.
C3_PinnedIgnoresList ==
  (model # None /\ gemini_path # None) =>
     /\ to_try = <<model>>
     /\ \A i \in 1..Len(Calls) : HasModel(Calls[i], model)

\* C4 (as claimed): the session id is passed only to the very first attempt of
\* the very first candidate; every later attempt, retries of the first
\* candidate included, runs without it.
C4_TokenOnlyFirstAttempt ==
  \A i \in 1..Len(Calls) :
     HasToken(Calls[i]) => (Calls[i].cand = 1 /\ Calls[i].attempt = 0)

\* C4 (amended): the session id is passed to every attempt of the first
\* candidate, its transient retries included, and to no attempt of a later
\* candidate.
C4_TokenOnFirstCandidate ==
  \A i \in 1..Len(Calls) :
     HasToken(Calls[i]) <=> (session_id # None /\ Calls[i].cand = 1)

C4_Witness ==
  \E i, j \in 1..Len(Calls) :
     /\ Calls[i].cand = 1 /\ Calls[i].attempt = 1 /\ HasToken(Calls[i])
     /\ Calls[j].cand = 2 /\ ~HasToken(Calls[j])

\* C5: once the orchestrator is past the first candidate the session id is
\* gone: every attempt that carries it has candidate index 0 (the first
\* candidate), and current_session_id is None from the second candidate on.
C5_NoTokenAfterFallback ==
  /\ \A i \in 1..Len(Calls) : Calls[i].cand > 1 => ~HasToken(Calls[i])
  /\ (idx > 1 => current_session_id = None)

C5_Witness ==
  /\ session_id # None
  /\ Len(Calls) >= 3
  /\ Calls[1].res = "permanent"
  /\ Calls[2].cand = 2 /\ Calls[2].res = "transient"
  /\ Calls[3].cand = 2 /\ Calls[3].attempt = 1

\* C6: a failure classified permanent or unknown is never retried on the same
\* candidate: the next process start, if any, is the first attempt of the next
\* candidate, with no delay, and a candidate whose first attempt failed so got
\* exactly one attempt.  For [A, B] with A failing permanently and B answering,
\* the call returns B's answer under a warning naming B as used and A as
\* failed, after exactly 2 attempts.
C6_PermanentNotRetried ==
  /\ \A i \in CallIdx : trace[i].res = "permanent" =>
        /\ \A j \in CallIdx : j > i => trace[j].cand > trace[i].cand
        /\ i < Len(trace) =>
             /\ trace[i + 1].ev = "call"
             /\ trace[i + 1].cand = trace[i].cand + 1
             /\ trace[i + 1].attempt = 0
        /\ trace[i].attempt = 0 =>
             Cardinality({j \in CallIdx : trace[j].cand = trace[i].cand}) = 1
  /\ (/\ Len(Calls) >= 2
      /\ Calls[1].res = "permanent"
      /\ Calls[2].res = "success" /\ outcome.result.t = "str")
     => /\ pc = "done"
        /\ Len(Calls) = 2 /\ Sleeps = <<>>
        /\ Calls[1].cand = 1 /\ Calls[2].cand = 2
        /\ Contains(ret, outcome.result.s)
        /\ WarningNames(ret, to_try[2], to_try[1])

C6_Witness ==
  /\ pc = "done" /\ to_try = <<"A", "B">>
  /\ Classes = <<"permanent", "success">>
  /\ HasWarning(ret)

\* The scenario of C7: one pinned backend, two transient failures, then an answer.
C7_Scenario ==
  /\ Pinned /\ Ended
  /\ Classes = <<"transient", "transient", "success">>
  /\ outcome.result.t = "str"

\* C7 (as claimed): in that scenario the result equals the success text.
C7_ResultIsSuccessText ==
  C7_Scenario => (pc = "done" /\ ret = outcome.result.s)

\* C7 (amended): a transient failure with attempts left is retried on the same
\* candidate: for one pinned backend that fails transiently twice and then
\* answers, the result is the answer with no warning block, followed by the
\* metadata footer exactly when statistics were extracted; exactly 3 attempts
\* are made, all on that backend, with one delay between consecutive attempts
\* (2 delays).
C7_TransientRetried ==
  /\ \A i \in CallIdx :
        (trace[i].res = "transient" /\ trace[i].attempt < _MAX_RETRIES) =>
           /\ i < Len(trace) /\ trace[i + 1].ev = "sleep"
           /\ i + 1 < Len(trace) =>
                /\ trace[i + 2].ev = "call"
                /\ trace[i + 2].cand = trace[i].cand
                /\ trace[i + 2].attempt = trace[i].attempt + 1
  /\ C7_Scenario =>
        /\ pc = "done"
        /\ ~HasWarning(ret)
        /\ ret = IF outcome.stats.t = "null" THEN outcome.result.s
                 ELSE outcome.result.s \o <<NL, NL>> \o
                      _format_metadata(outcome.stats, None, skipped_files).s
        /\ HasFooter(ret) <=> outcome.stats.t # "null"
        /\ Len(Calls) = 3 /\ Len(Sleeps) = 2
        /\ \A i \in 1..2 : Sleeps[i].secs = _RETRY_DELAY_SECS
        /\ \A i \in 1..3 : HasModel(Calls[i], model) /\ Calls[i].cand = 1
        /\ [i \in 1..Len(trace) |-> trace[i].ev]
             = <<"call", "sleep", "call", "sleep", "call">>

C7_Witness == C7_Scenario /\ pc = "done" /\ outcome.stats.t # "null"

\* The scenario of C8: a pinned backend whose 3 attempts all fail transiently.
C8_Scenario ==
  Pinned /\ Classes = <<"transient", "transient", "transient">>

\* C8: a pinned backend that fails transiently on all 3 attempts: exactly 3
\* attempts are made and the returned string is the failure text of the last
\* attempt, verbatim, with no warning block and no metadata footer.
C8_PinnedExhausted ==
  C8_Scenario =>
     /\ pc = "done"
     /\ Len(Calls) = 3
     /\ ret = outcome.result.s
     /\ ~outcome.success
     /\ ~HasWarning(ret) /\ ~HasFooter(ret)

C8_Witness ==
  /\ C8_Scenario /\ pc = "done"
  /\ ret = <<"Error", Sep, "gemini CLI exited with code ", "1", Sep, T_TempUnavail>>
  /\ failures[1][2] = ret

\* C9: with a priority list, a candidate whose transient failures use up its 3
\* attempts is recorded as failed and the next candidate is tried at once: for
\* [A, B] with A failing transiently 3 times and B answering, 4 attempts are
\* made (3 on A, 1 on B) and the result holds B's answer under a warning naming
\* B as used and A as failed.
C9_ExhaustedFallsBack ==
  /\ \A i \in CallIdx : trace[i].attempt <= _MAX_RETRIES
  /\ \A i \in CallIdx :
        (trace[i].res = "transient" /\ trace[i].attempt = _MAX_RETRIES) =>
           /\ Len(failures) >= trace[i].cand
           /\ failures[trace[i].cand][1] = NameOf(to_try[trace[i].cand])
           /\ i < Len(trace) =>
                /\ trace[i + 1].ev = "call"
                /\ trace[i + 1].cand = trace[i].cand + 1
                /\ trace[i + 1].attempt = 0
  /\ (/\ Classes = <<"transient", "transient", "transient", "success">>
      /\ outcome.result.t = "str")
     => /\ pc = "done"
        /\ \A i \in 1..3 : Calls[i].cand = 1
        /\ Calls[4].cand = 2
        /\ Contains(ret, outcome.result.s)
        /\ WarningNames(ret, to_try[2], to_try[1])

C9_Witness ==
  /\ pc = "done" /\ to_try = <<"A", "B">>
  /\ Classes = <<"transient", "transient", "transient", "success">>
  /\ HasWarning(ret)

\* Every candidate was tried and none answered.
C10_AllFailed ==
  /\ pc = "done" /\ gemini_path # None
  /\ Len(failures) = Len(to_try)

\* C10: when every candidate is exhausted without success, run_gemini returns
\* exactly the failure text of the last failed attempt of the last candidate,
\* with no warning block and no metadata footer.
C10_LastFailureVerbatim ==
  C10_AllFailed =>
     /\ Calls[Len(Calls)].cand = Len(to_try)
     /\ Calls[Len(Calls)].res \in {"permanent", "transient"}
     /\ ~outcome.success
     /\ ret = outcome.result.s
     /\ ret = failures[Len(failures)][2]
     /\ ~HasWarning(ret) /\ ~HasFooter(ret)

C10_Witness ==
  /\ C10_AllFailed
  /\ Len(to_try) = 2
  /\ failures[1][2] # failures[2][2]
  /\ Classes = <<"permanent", "transient", "transient", "transient">>

\* C11: when an empty priority list is given and no backend is pinned, the
\* candidate list is empty: run_gemini starts no process and returns the
\* literal "Error: no models to try".
C11_EmptyListNoAttempt ==
  (~models.isNone /\ models.items = <<>> /\ model = None /\ gemini_path # None
     /\ pc # "start") =>
     /\ to_try = <<>>
     /\ trace = <<>>
     /\ pc = "done"
     /\ ret = NoModelsMessage

\* The messages with a transient indicator (quota or rate-limit wording, 429,
\* "temporarily unavailable") and those with a permanent one.
TransientIndicators == {T_RateLimit, T_Quota, T_TempUnavail}
PermanentIndicators == {T_ModelNotFound, T_TempUnavail, T_404}
HasIndicator(text, ind) == \E i \in 1..Len(text) : text[i] \in ind
\* After call i the same candidate is retried / the call moves on.
RetriedAfter(i) == i < Len(trace) /\ trace[i + 1].ev = "sleep"
FellBackAfter(i) ==
  IF i < Len(trace)
    THEN trace[i + 1].ev = "call" /\ trace[i + 1].cand = trace[i].cand + 1
    ELSE pc = "done" \/ (pc = "spawn" /\ idx = trace[i].cand + 1)

\* C12: a failure text is classified transient (the candidate is retried, no
\* fallback) exactly when it contains a transient indicator, whether or not a
\* permanent indicator is present too; every other failure text, with a
\* permanent indicator or with none, makes the call fall back. The same text is
\* classified the same way at every attempt.
C12_TransientPrecedence ==
  \A i \in CallIdx :
     /\ (trace[i].how = "nonzero" /\ plan.kind = "stderr"
           /\ trace[i].attempt < _MAX_RETRIES) =>
          /\ RetriedAfter(i) <=> HasIndicator(plan.stderr, TransientIndicators)
          /\ FellBackAfter(i) <=> ~HasIndicator(plan.stderr, TransientIndicators)
     /\ trace[i].how \in {"timeout", "oserror"} => FellBackAfter(i)

C12_Witness ==
  /\ plan.kind = "stderr"
  /\ HasIndicator(plan.stderr, TransientIndicators)
  /\ HasIndicator(plan.stderr, PermanentIndicators \ TransientIndicators)
  /\ \E i \in CallIdx : trace[i].how = "nonzero" /\ trace[i].attempt = 1 /\ RetriedAfter(i)

StartsWith(s, pre) == Len(s) >= Len(pre) /\ SubSeq(s, 1, Len(pre)) = pre
\* The call returned the answer of a successful attempt.
Answered == pc = "done" /\ Calls # <<>> /\ Calls[Len(Calls)].res = "success"
\* The lines of s that list a failed candidate.
FailureLines(s) ==
  {i \in 1..Len(SplitLines(s)) : StartsWith(SplitLines(s)[i], <<"  - ">>)}

\* C13: a successful result starts with a warning block exactly when an earlier
\* candidate failed in this call: its first line names the candidate that
\* answered, the next lines list each failed candidate once, in the order they
\* were tried, and a blank line ends the block. When the first candidate
\* answers, retried or not, there is no warning.
C13_WarningIffFallback ==
  Answered =>
    LET k == Calls[Len(Calls)].cand
        lines == SplitLines(ret)
    IN /\ \A c \in 1..(k - 1) :
            \E i \in CallIdx : trace[i].cand = c /\ trace[i].res \in {"permanent", "transient"}
       /\ StartsWith(ret, <<"[WARNING">>) <=> k > 1
       /\ k = 1 => ~HasWarning(ret)
       /\ k > 1 =>
            /\ lines[1] = WarningHead \o <<NameOf(to_try[k]), "]">>
            /\ \A c \in 1..(k - 1) :
                 StartsWith(lines[c + 1], <<"  - ", NameOf(to_try[c]), Sep>>)
            /\ lines[k + 1] = <<>>
            /\ FailureLines(ret) = 2..k

C13_Witness ==
  /\ Answered
  /\ Calls[Len(Calls)].cand = 4
  /\ \E i \in CallIdx : trace[i].res = "transient"
  /\ FailureLines(ret) = 2..4

\* C19: gemini_query gives run_gemini one candidate source: with model set,
\* that model and models=None, so the model is the only candidate; with model
\* None, model=None and the four names of MODEL_FALLBACK_CHAIN in their order.
C19_OneCandidateSource ==
  pc # "query" =>
    /\ model # None =>
         /\ models = ModelsNone
         /\ (pc # "start" /\ gemini_path # None) => to_try = <<model>>
    /\ model = None =>
         /\ models = ModelsList(MODEL_FALLBACK_CHAIN)
         /\ Len(models.items) = 4
         /\ (pc # "start" /\ gemini_path # None) =>
              to_try = <<"gemini-3-pro-preview", "gemini-3-flash-preview",
                         "gemini-2.5-pro", "gemini-2.5-flash">>
    /\ \A i \in CallIdx : HasModel(trace[i], to_try[trace[i].cand])

C19_Witness ==
  /\ pc = "done" /\ model = None
  /\ {trace[i].cand : i \in CallIdx} = 1..4
  /\ HasModel(Calls[Len(Calls)], "gemini-2.5-flash")

\* The latest attempt exited with status zero and _call_gemini returned.
ZeroExitReturned ==
  /\ Calls # <<>>
  /\ Calls[Len(Calls)].how = "zero"
  /\ Calls[Len(Calls)].res = "success"
\* The usage mapping of the planned payload, empty when there is none.
PlannedModels ==
  IF HasKey(plan.data, "stats") /\ HasKey(plan.data.f["stats"], "models")
    THEN plan.data.f["stats"].f["models"]
    ELSE EmptyDict
\* A count of a backend entry, 0 when the entry does not have it.
Count(entry, key) ==
  IF HasKey(entry, "tokens") /\ HasKey(entry.f["tokens"], key)
    THEN entry.f["tokens"].f[key].n
    ELSE 0

\* C14: a successful result carries a metadata footer exactly when statistics
\* were extracted from the successful attempt; a payload whose usage mapping
\* is empty or absent gives the outcome (True, response, None), and the
\* returned string is the answer, after the warning block if there is one,
\* with no footer.
C14_FooterIffStats ==
  /\ Answered => (HasFooter(ret) <=> outcome.stats # NoStats)
  /\ (plan.kind = "payload" /\ ZeroExitReturned /\ PlannedModels = EmptyDict) =>
       /\ outcome = Outcome(TRUE, PyStr(<<"hello">>), NoStats)
       /\ pc = "done"
       /\ ~HasFooter(ret)
       /\ IF failures = <<>> THEN ret = <<"hello">>
          ELSE /\ StartsWith(ret, WarningHead)
               /\ SubSeq(ret, Len(ret) - 2, Len(ret)) = <<NL, NL, "hello">>

C14_Witness ==
  /\ plan.kind = "payload" /\ ZeroExitReturned
  /\ HasKey(plan.data, "stats") /\ PlannedModels = EmptyDict
  /\ failures # <<>>
  /\ pc = "done" /\ ~HasFooter(ret)

\* C15: from a payload with backend entries, _extract_stats returns the name
\* and the input and output token counts of an entry whose candidates count
\* is the greatest of all entries, a missing count being 0.
C15_GreatestCandidates ==
  (plan.kind = "payload" /\ ZeroExitReturned /\ PlannedModels # EmptyDict) =>
     LET m == PlannedModels IN
     /\ outcome.success
     /\ outcome.stats # NoStats
     /\ \E i \in 1..Len(m.keys) :
          LET e == m.f[m.keys[i]] IN
          /\ outcome.stats.model = PyStr(<<m.keys[i]>>)
          /\ outcome.stats.input_tokens = PyNum(Count(e, "input"))
          /\ outcome.stats.output_tokens = PyNum(Count(e, "candidates"))
          /\ \A j \in 1..Len(m.keys) :
               Count(m.f[m.keys[j]], "candidates") <= Count(e, "candidates")

C15_Witness ==
  /\ plan.kind = "payload" /\ ZeroExitReturned
  /\ Len(PlannedModels.keys) = 2
  /\ Count(PlannedModels.f["R"], "candidates") = 1
  /\ Count(PlannedModels.f["R"], "input") = 7
  /\ Count(PlannedModels.f["M"], "candidates") = 2
  /\ outcome.stats.model = PyStr(<<"M">>)
  /\ outcome.stats.output_tokens = PyNum(2)

\* The latest attempt exited with status zero; _call_gemini returned or raised.
ZeroExit == Calls # <<>> /\ Calls[Len(Calls)].how = "zero"
\* The JSON documents that are objects.
ObjectDocs == {J_Plain, J_Stats, J_NumResp, J_NullStats, J_ListModels}
IsDoc(line, docs) == Len(Strip(line)) = 1 /\ Strip(line)[1] \in docs
\* The lines of the planned stdout that are JSON objects.
ObjectLines(text) == {i \in 1..Len(SplitLines(text)) : IsDoc(SplitLines(text)[i], ObjectDocs)}
Max(S) == CHOOSE x \in S : \A y \in S : y <= x

\* C16: on zero exit, when the whole trimmed stdout is not one JSON document,
\* the latest line that is a JSON object is used: the answer is its response
\* field and the statistics are extracted from it; earlier lines, JSON objects
\* or not, are ignored.
C16_LatestObjectLine ==
  (plan.kind = "stdout" /\ ZeroExit /\ ~IsDoc(plan.stdout, JsonDocs)
     /\ ObjectLines(Strip(plan.stdout)) # {}) =>
     LET lines == SplitLines(Strip(plan.stdout))
         data == JsonValue(Strip(lines[Max(ObjectLines(Strip(plan.stdout)))])[1])
         st == _extract_stats(data)
     IN /\ Calls[Len(Calls)].res = "success"
        /\ st.exc = "none"
        /\ outcome = Outcome(TRUE, data.f["response"], st.val)

\* C17: whenever the process exits with status zero the attempt succeeds,
\* whatever stdout holds; when no line of stdout is a JSON object, and the
\* whole of it is not one either, the answer is the trimmed stdout and there
\* are no statistics.
C17_ZeroExitSucceeds ==
  (plan.kind = "stdout" /\ ZeroExit) =>
     /\ Calls[Len(Calls)].res = "success"
     /\ outcome.success
     /\ (~IsDoc(plan.stdout, ObjectDocs) /\ ObjectLines(Strip(plan.stdout)) = {}) =>
          outcome = Outcome(TRUE, PyStr(Strip(plan.stdout)), NoStats)

\* C18: when the timeout of an attempt expires, its process is terminated and
\* reaped before _call_gemini returns the "timed out" outcome: no process of a
\* timed-out attempt is running once that attempt has returned.
C18_TimedOutProcessReclaimed ==
  \A p \in alive : trace[p].how # "timeout"

\* C20: the attempts of one call are strictly sequential: a process is started
\* only after the previous attempt's process has ended, so at most one process
\* started by the call is alive at any time, also after a timed-out attempt
\* followed by a fallback.
C20_AtMostOneProcess ==
  /\ Cardinality(alive) <= 1
  /\ pc = "wait" => alive = {Len(trace)}

\* C21: when the call is cancelled while it waits for a process or for the
\* retry delay, the wait is abandoned and nothing is started afterwards: no
\* retry of the current candidate and no further candidate.
C21_NothingAfterCancel ==
  \A i \in 1..Len(trace) :
     trace[i].how = "cancelled" =>
        \A j \in (i + 1)..Len(trace) : trace[j].ev \notin {"call", "sleep"}

\* The attempts made on candidate c so far.
AttemptsOn(c) == {i \in CallIdx : trace[i].cand = c}
\* At most _MAX_RETRIES + 1 attempts on each candidate, so at most that many
\* times the length of the list in all, and the candidates of successive
\* attempts never go back.
BoundedWork ==
  /\ \A c \in 1..Len(to_try) : Cardinality(AttemptsOn(c)) <= _MAX_RETRIES + 1
  /\ Len(Calls) <= (_MAX_RETRIES + 1) * Len(to_try)
  /\ \A i \in 1..Len(Calls) : \A j \in i..Len(Calls) : Calls[i].cand <= Calls[j].cand

\* C22: every call terminates with bounded work: once no step of the call is
\* left, run_gemini has returned, after at most 3 attempts on each candidate
\* and 3 x N attempts for N candidates, and without going back to a candidate
\* it has moved past.
C22_ReturnsWithBoundedWork ==
  /\ BoundedWork
  /\ pc \notin {"start", "spawn", "wait", "sleep"} => pc = "done"

\* Where the answer starts in a returned string: after the blank line that
\* ends the warning block, if there is one.
AnswerStart(s) ==
  IF ~StartsWith(s, <<"[WARNING">>) THEN 1
  ELSE 2 + CHOOSE i \in 1..Len(s) :
             /\ s[i] = NL /\ s[i + 1] = NL
             /\ \A j \in 1..(i - 1) : ~(s[j] = NL /\ s[j + 1] = NL)

\* C23: the candidates are tried in list order and the first success wins:
\* the first attempt is on the first candidate, an attempt on candidate i+1
\* follows only a failed attempt on candidate i that gave the candidate up and
\* recorded it in failures, nothing follows a successful attempt, and the
\* answer in the returned string is the text of that successful attempt.
C23_FirstSuccessWins ==
  /\ Calls # <<>> => Calls[1].cand = 1
  /\ \A i \in 1..Len(Calls) :
       /\ models.items # <<>> => to_try = models.items
       /\ to_try[Calls[i].cand] # None => HasModel(Calls[i], to_try[Calls[i].cand])
  /\ \A i \in 1..(Len(Calls) - 1) :
       LET a == Calls[i]
           b == Calls[i + 1]
       IN /\ a.res \in {"permanent", "transient"}
          /\ b.cand \in {a.cand, a.cand + 1}
          /\ b.cand = a.cand + 1 =>
               /\ a.res = "permanent" \/ a.attempt = _MAX_RETRIES
               /\ Len(failures) >= a.cand
               /\ failures[a.cand][1] = NameOf(to_try[a.cand])
  /\ Answered =>
       /\ outcome.success
       /\ outcome.result.t = "str"
       /\ LET ans == outcome.result.s
              k == AnswerStart(ret)
          IN /\ SubSeq(ret, k, k + Len(ans) - 1) = ans
             /\ k + Len(ans) - 1 = Len(ret) \/
                  SubSeq(ret, k + Len(ans), k + Len(ans) + 2) = <<NL, NL, "---">>

C23_Witness ==
  /\ Answered
  /\ to_try = <<"A", "B">>
  /\ Classes = <<"permanent", "transient", "success">>
  /\ HasFooter(ret)

\* The delays taken while candidate c was tried.
DelaysOn(c) == {i \in 1..Len(trace) : trace[i].ev = "sleep" /\ trace[i].cand = c}

\* C24: the delay of _RETRY_DELAY_SECS seconds is taken exactly after an
\* attempt that failed transiently with attempts left for its candidate: every
\* delay follows such an attempt at once, every such attempt is followed by
\* the delay, and nothing else is (a success, a permanent or unknown failure,
\* the last attempt of a candidate, the move to the next candidate); a
\* candidate has at most 2 delays.
C24_DelayIffRetry ==
  /\ \A i \in 1..Len(trace) :
       trace[i].ev = "sleep" =>
          /\ i > 1
          /\ trace[i - 1].ev = "call"
          /\ trace[i - 1].res = "transient"
          /\ trace[i - 1].attempt < _MAX_RETRIES
          /\ trace[i].cand = trace[i - 1].cand
          /\ trace[i].secs = _RETRY_DELAY_SECS
  /\ \A i \in CallIdx :
       (trace[i].res = "transient" /\ trace[i].attempt < _MAX_RETRIES) =>
          /\ i < Len(trace)
          /\ trace[i + 1].ev = "sleep"
  /\ pc = "sleep" => trace[Len(trace)].ev = "sleep"
  /\ \A c \in 1..Len(to_try) : Cardinality(DelaysOn(c)) <= _MAX_RETRIES

C24_Witness ==
  /\ to_try = <<"A", "B">>
  /\ Classes = <<"transient", "transient", "transient", "success">>
  /\ Cardinality(DelaysOn(1)) = 2
  /\ DelaysOn(2) = {}
  /\ trace[Len(trace) - 1].ev = "call" /\ trace[Len(trace) - 1].attempt = _MAX_RETRIES

FallbackNote(x) == <<" (fallback from ", x, ")">>

\* C26: when the answer comes after a fallback and statistics were extracted,
\* the footer's model line ends with "(fallback from X)", X being the first
\* candidate of the call and no candidate that failed later; when no candidate
\* failed before the answer the footer has no fallback note.
C26_FallbackFromFirst ==
  (Answered /\ outcome.stats # NoStats) =>
     LET k == Calls[Len(Calls)].cand IN
     /\ k = 1 => ~Contains(ret, <<" (fallback from ">>)
     /\ k > 1 =>
          /\ Contains(ret, <<NL, "Model", Sep>> \o Render(outcome.stats.model)
                            \o FallbackNote(NameOf(to_try[1])) \o <<NL>>)
          /\ \A c \in 2..k :
               to_try[c] # to_try[1] => ~Contains(ret, FallbackNote(NameOf(to_try[c])))

C26_Witness ==
  /\ Answered /\ outcome.stats # NoStats
  /\ Calls[Len(Calls)].cand = 3
  /\ Contains(ret, FallbackNote("gemini-3-pro-preview"))

\* C27: on every attempt, first try, retry or fallback, no part of the context
\* is among the command-line arguments; an input stream is attached exactly
\* when the context is non-empty, and what is written to it is the context,
\* the same on every attempt.
C27_ContextOnlyViaStdin ==
  \A i \in CallIdx :
     /\ \A k \in 1..Len(trace[i].cmd) : \A j \in 1..Len(context) :
           trace[i].cmd[k] # context[j]
     /\ trace[i].stdin <=> context # <<>>
     /\ trace[i].input = context

C27_Witness ==
  /\ pc = "done"
  /\ context # <<>>
  /\ \E i \in CallIdx : trace[i].cand = 1 /\ trace[i].attempt = _MAX_RETRIES
  /\ \E i \in CallIdx : trace[i].cand = 2 /\ trace[i].attempt = 1
  /\ \A i \in CallIdx : trace[i].stdin

\* C28: at every step of resolve_files, and so in what it returns, the list
\* of resolved paths is no longer than max_files and holds no path twice; its
\* entries are absolute paths in normal form of files that exist, whatever
\* the explicit files, patterns and directories given.
C28_CappedNoDuplicates ==
  /\ Len(rf.resolved) <= rf.max_files
  /\ \A i \in 1..Len(rf.resolved) : \A j \in 1..Len(rf.resolved) :
        i # j => rf.resolved[i] # rf.resolved[j]
  /\ \A i \in 1..Len(rf.resolved) :
        /\ AbsPath(rf.resolved[i]) = rf.resolved[i]
        /\ IsFile(rf.resolved[i])

C28_Witness ==
  /\ rf.at = "done"
  /\ rf.files = << <<".", "a.py">>, <<"a.py">> >>
  /\ rf.glob_patterns = <<"*.py">>
  /\ rf.directories = << <<"sub">>, <<".">> >>
  /\ rf.max_files = 3
  /\ rf.resolved = << <<"/", "w", "a.py">>, <<"/", "w", "b.py">>,
                      <<"/", "w", "sub", "c.py">> >>
  /\ rf.skipped = 1

\* The positions of the file blocks of a context, and the number of the block
\* at position i.
FileTags(s) == {i \in 1..Len(s) : s[i] = "<file path=\""}
BlockNo(s, i) == Cardinality({k \in FileTags(s) : k <= i})

\* The file is read: it exists and its bytes are utf-8.
Readable(path) == IsFile(path) /\ IsUtf8(path)

\* The bytes of the readable files among the first j paths.
RECURSIVE BytesOfFirst(_, _)
BytesOfFirst(paths, j) ==
  IF j = 0 THEN 0
  ELSE BytesOfFirst(paths, j - 1)
       + (IF Readable(paths[j]) THEN GetSize(paths[j]) ELSE 0)

\* The bytes of the file texts a context holds, from position i on.
RECURSIVE TextBytes(_, _)
TextBytes(s, i) ==
  IF i > Len(s) THEN 0
  ELSE (IF s[i] = "<text of " THEN GetSize(<<s[i + 1]>>) ELSE 0) + TextBytes(s, i + 1)

\* C29: the running total never passes max_bytes, and in the context returned
\* the file texts add up to at most max_bytes; the blocks are those of the
\* first n paths in order (the text of a file that is read, an error entry for
\* one that is not); when n is less than the number of paths, the next path
\* is a file whose size would push the total over max_bytes and no later
\* file has a block; the note "<n> of <total> files included" is there
\* exactly when n is less than the number of paths.
C29_ByteCapAndNote ==
  /\ rd.total_bytes <= rd.max_bytes
  /\ rd.at = "done" =>
       LET s == rd.ret
           paths == rd.file_paths
           n == Cardinality(FileTags(s))
       IN /\ n <= Len(paths)
          /\ \A i \in FileTags(s) :
                LET j == BlockNo(s, i)
                    d == _display_path(paths[j])
                IN /\ SubSeq(s, i + 1, i + Len(d)) = d
                   /\ s[i + Len(d) + 1] = "\">" <=> Readable(paths[j])
                   /\ Readable(paths[j]) =>
                        SubSeq(s, i + Len(d) + 3, i + Len(d) + 5) = Content(paths[j])
          /\ TextBytes(s, 1) = BytesOfFirst(paths, n)
          /\ TextBytes(s, 1) <= rd.max_bytes
          /\ n < Len(paths) =>
                /\ IsFile(paths[n + 1])
                /\ BytesOfFirst(paths, n) + GetSize(paths[n + 1]) > rd.max_bytes
          /\ Contains(s, TruncationNote(rd.max_bytes, n, Len(paths))) <=> n < Len(paths)
          /\ n = Len(paths) =>
                \A i \in 1..Len(s) : s[i] # "<note>Context truncated: reached "

\* b.py does not fit after a.py, and c.py, which would fit, is left out too.
C29_Witness ==
  /\ rd.at = "done"
  /\ rd.file_paths = << <<"/", "w", "a.py">>, <<"/", "w", "b.py">>,
                        <<"/", "w", "sub", "c.py">> >>
  /\ rd.max_bytes = 4
  /\ Contains(rd.ret, TruncationNote(4, 1, 3))
  /\ Cardinality(FileTags(rd.ret)) = 1

\* A call's record without the call's number.
Locals(c) == [c EXCEPT !.id = 0]

\* The way each event of a history ended.
Hows(tr) == [i \in 1..Len(tr) |-> tr[i].how]

\* What call c has done follows from its own arguments: its candidates are
\* those of its model and models, each of its commands names its own
\* candidate and no session id but its own, its failure list names its own
\* candidates in order, and its retry counter is within range.
OwnWork(c) ==
  /\ c.gemini_path # None => c.to_try = ToTry(c.model, c.models)
  /\ c.attempt \in 0.._MAX_RETRIES
  /\ Len(c.failures) <= Len(c.to_try)
  /\ \A j \in 1..Len(c.failures) : c.failures[j][1] = NameOf(c.to_try[j])
  /\ c.current_session_id \in {c.session_id, None}
  /\ \A i \in 1..Len(c.trace) :
        c.trace[i].ev = "call" =>
           /\ c.trace[i].cand \in 1..Len(c.to_try)
           /\ c.trace[i].cmd \in
                {Cmd(GeminiPath, c.to_try[c.trace[i].cand], sid) :
                   sid \in {c.session_id, None}}

\* Two calls given the same arguments whose attempts ended the same way are
\* at the same place with the same locals and the same result.
SameWork(c, d) ==
  (/\ c.model = d.model /\ c.models = d.models /\ c.session_id = d.session_id
   /\ c.context = d.context
   /\ c.pc = d.pc
   /\ Hows(c.trace) = Hows(d.trace))
  => [Locals(c) EXCEPT !.alive = {}] = [Locals(d) EXCEPT !.alive = {}]

\* A step of the event loop with two calls: either it is a step of the call
\* that runs and the other call's record is untouched, or the two change
\* places and each is found as it was left.
OthersUntouched ==
  \/ other' = other
  \/ /\ other'.id = 3 - other.id
     /\ Locals(other') = Locals(Running(0))
     /\ Locals(Running(0))' = Locals(other)

\* C25: with two run_gemini calls interleaved in any way, no step of one call
\* reads or changes the failure list, the retry counter, the session id in
\* use or any other local of the other; after every step each call's
\* attempts and result follow from its own arguments, and two calls with the
\* same arguments whose attempts ended in the same ways have the same
\* attempts and the same result.
C25_CallsIndependent ==
  [][other.id # 0 =>
       /\ OthersUntouched
       /\ OwnWork(other)'
       /\ OwnWork(Running(0))'
       /\ SameWork(Running(0), other)']_vars

\* Both calls are under way, given the same arguments: one has fallen back
\* and dropped the session id, the other is between its retries.
C25_Witness ==
  /\ other.id # 0
  /\ model = other.model /\ models = other.models
  /\ session_id = "tok" /\ other.session_id = "tok"
  /\ pc = "wait" /\ Len(failures) = 1 /\ attempt = 0 /\ current_session_id = None
  /\ other.pc = "sleep" /\ other.failures = <<>> /\ other.attempt = 1
  /\ other.current_session_id = "tok"
====
